---- MODULE Spec2Model ----
(***************************************************************************)
(* A model of the gmail-multi-inbox MCP server: the account registry, the  *)
(* account resolver (read vs write policy) and the read_emails /           *)
(* search_emails fan-out with merge, sort and truncation.                  *)
(*                                                                         *)
(* Strings whose content the code inspects (account ids, queries) are      *)
(* sequences of one-character strings, so that trim() and the id pattern   *)
(* are computed and not assumed.  Loosely typed tool arguments are tagged  *)
(* values [t, s, n]: t is the JavaScript type, s the string, n the number. *)
(***************************************************************************)
EXTENDS Integers, Sequences, FiniteSets, TLC

\* ------------------------------------------------------------------ bounds
\* longest account / query argument, in characters
MaxArgLen == 2
\* most accounts in a registry of the resolver scenarios
MaxAccounts == 2
\* most messages a mailbox of the general fan-out scenario holds
MaxItems == 2
\* largest provider timestamp of the general fan-out scenario
MaxDate == 1
\* messages in each mailbox of the large scenario (more than the cap of 100)
BigLen == 101

\* ------------------------------------------------------- program constants
\* clamp(args.max_results ?? 20, 1, 100)
MinResults == 1
MaxResults == 100
ReadDefault == 20
SearchDefault == 25

\* ----------------------------------------------------------------- strings
\* characters matched by ACCOUNT_ID_PATTERN = /^[a-zA-Z0-9_-]+$/ (those in use)
PatternChars == {"a", "b", "c", "q", "_", "-"}
\* characters String.prototype.trim removes (those in use)
WhitespaceChars == {" "}
\* the alphabet tool arguments are drawn from
ArgChars == {"a", "b", " ", "/"}

SeqsUpTo(S, n) == UNION {[1..k -> S] : k \in 0..n}

RECURSIVE trimStart(_)
trimStart(s) ==
    IF s # <<>> /\ Head(s) \in WhitespaceChars THEN trimStart(Tail(s)) ELSE s

RECURSIVE trimEnd(_)
trimEnd(s) ==
    IF s # <<>> /\ s[Len(s)] \in WhitespaceChars
    THEN trimEnd(SubSeq(s, 1, Len(s) - 1))
    ELSE s

trim(s) == trimEnd(trimStart(s))

\* ------------------------------------------------------- JavaScript values
Undefined == [t |-> "undefined", s |-> <<>>, n |-> 0]
Str(s) == [t |-> "string", s |-> s, n |-> 0]
Num(n) == [t |-> "number", s |-> <<>>, n |-> n]
\* NaN, Infinity and -Infinity: numbers that are not finite
NotFinite == [t |-> "nonfinite", s |-> <<>>, n |-> 0]

valueToString(value, fallback) ==
    IF value.t = "string" THEN value.s ELSE fallback

valueToNumber(value, fallback) ==
    IF value.t = "number" THEN value.n ELSE fallback

Max2(a, b) == IF a >= b THEN a ELSE b
Min2(a, b) == IF a <= b THEN a ELSE b

\* mutant: only the lower bound is applied
clamp_noUpper(value, minValue, maxValue) == Max2(minValue, value)

clamp(value, minValue, maxValue) == Max2(minValue, Min2(value, maxValue))

\* `x || undefined` for a string x
orUndefined(s) == IF s = <<>> THEN Undefined ELSE Str(s)

\* ---------------------------------------------------------------- registry
\* validateAccountId: TRUE when the id passes, FALSE when it throws
validateAccountId(accountId) ==
    /\ Len(accountId) >= 1
    /\ \A i \in 1..Len(accountId) : accountId[i] \in PatternChars

Ok(accounts) == [ok |-> TRUE, error |-> "none", accounts |-> accounts]
Err(error) == [ok |-> FALSE, error |-> error, accounts |-> <<>>]

\* index of the first account with this id, 0 when there is none
\* (Array.prototype.find / findIndex)
findIndex(accounts, accountId) ==
    IF \E i \in 1..Len(accounts) : accounts[i].id = accountId
    THEN CHOOSE i \in 1..Len(accounts) :
            /\ accounts[i].id = accountId
            /\ \A j \in 1..(i - 1) : accounts[j].id # accountId
    ELSE 0

\* mutant: the id is looked up without being validated first
getAccountOrThrow_noValidate(config, accountId) ==
    IF findIndex(config.accounts, accountId) = 0 THEN Err("UnknownAccount")
    ELSE Ok(<<config.accounts[findIndex(config.accounts, accountId)]>>)

getAccountOrThrow(config, accountId) ==
    IF ~validateAccountId(accountId) THEN Err("InvalidAccountId")
    ELSE IF findIndex(config.accounts, accountId) = 0 THEN Err("UnknownAccount")
    ELSE Ok(<<config.accounts[findIndex(config.accounts, accountId)]>>)

\* mutant: the enabled flag is not looked at
getEnabledAccounts_all(config) == config.accounts

\* mutant: the enabled accounts, last first
getEnabledAccounts_reversed(config) ==
    LET enabled == SelectSeq(config.accounts, LAMBDA a : a.enabled)
    IN  [i \in 1..Len(enabled) |-> enabled[Len(enabled) + 1 - i]]

getEnabledAccounts(config) == SelectSeq(config.accounts, LAMBDA a : a.enabled)

\* mutant: a named account is returned whether enabled or not
resolveReadAccounts_noDisabledCheck(config, accountId) ==
    IF accountId.t = "string" /\ accountId.s # <<>> /\ trim(accountId.s) # <<>>
    THEN getAccountOrThrow(config, accountId.s)
    ELSE IF Len(getEnabledAccounts(config)) = 0 THEN Err("NoEnabledAccounts")
    ELSE Ok(getEnabledAccounts(config))

\* accountId is Undefined or Str(s)
resolveReadAccounts(config, accountId) ==
    IF accountId.t = "string" /\ accountId.s # <<>> /\ trim(accountId.s) # <<>>
    THEN LET found == getAccountOrThrow(config, accountId.s)
         IN  IF ~found.ok THEN found
             ELSE IF ~found.accounts[1].enabled THEN Err("AccountDisabled")
             ELSE found
    ELSE IF Len(getEnabledAccounts(config)) = 0 THEN Err("NoEnabledAccounts")
    ELSE Ok(getEnabledAccounts(config))

\* mutant: a blank account falls back to the registry's default account
resolveWriteAccount_defaultFallback(config, accountId) ==
    LET id == IF accountId.t # "string" \/ accountId.s = <<>> \/ trim(accountId.s) = <<>>
              THEN config.defaultAccount.s
              ELSE accountId.s
    IN  IF id = <<>> THEN Err("AccountRequired")
        ELSE LET found == getAccountOrThrow(config, id)
             IN  IF ~found.ok THEN found
                 ELSE IF ~found.accounts[1].enabled THEN Err("AccountDisabled")
                 ELSE found

\* accountId is the string the handler passes (valueToString(rawArgs.account))
resolveWriteAccount(config, accountId) ==
    IF accountId.t # "string" \/ accountId.s = <<>> \/ trim(accountId.s) = <<>>
    THEN Err("AccountRequired")
    ELSE LET found == getAccountOrThrow(config, accountId.s)
         IN  IF ~found.ok THEN found
             ELSE IF ~found.accounts[1].enabled THEN Err("AccountDisabled")
             ELSE found

\* sanitizeAccount on one entry of the file: an entry without an id is
\* dropped ("null"), an id outside the pattern makes validateAccountId throw
Null == [t |-> "null", s |-> <<>>, n |-> 0]

sanitizeAccount(input) ==
    IF trim(input.id) = <<>> THEN "null"
    ELSE IF validateAccountId(input.id) THEN "account"
    ELSE "throw"

\* loadAccountsConfig throws "Failed to read accounts config"
loadThrows(file) ==
    \E i \in 1..Len(file.accounts) : sanitizeAccount(file.accounts[i]) = "throw"

\* mutant: the default pointer is returned as the file has it
loadAccountsConfig_keepDefault(file) ==
    [defaultAccount |-> file.defaultAccount,
     accounts |-> SelectSeq(file.accounts, LAMBDA a : sanitizeAccount(a) = "account")]

\* loadAccountsConfig on the parsed file: the entries that pass
\* sanitizeAccount, and the default pointer only when it is a string naming
\* one of them
loadAccountsConfig(file) ==
    LET accounts == SelectSeq(file.accounts, LAMBDA a : sanitizeAccount(a) = "account")
    IN  [defaultAccount |->
            IF file.defaultAccount.t = "string"
               /\ \E i \in 1..Len(accounts) : accounts[i].id = file.defaultAccount.s
            THEN file.defaultAccount
            ELSE Null,
         accounts |-> accounts]

\* ----------------------------------------------------------- mail provider
\* What the outside holds for one account: whether its credentials and
\* token files exist, how the mail API answers ("ok", "fail", "hang"), and
\* the messages the provider lists, in the provider's listing order.  A raw
\* message is [id, internalDate]; internalDate is a JavaScript value.

\* parseMessage: Number(message.internalDate ?? 0), 0 unless finite
parseMessage(account, message) ==
    [id |-> message.id,
     accountId |-> account.id,
     internalDate |->
        IF message.internalDate.t = "number" THEN message.internalDate ELSE Num(0)]

emailDateForSort(email) ==
    IF email.internalDate.t = "number" THEN email.internalDate.n ELSE 0

\* Array.prototype.sort is stable: the emails of the latest date first, in
\* the order they had, then the rest sorted the same way
RECURSIVE sortByDates(_, _)
sortByDates(emails, dates) ==
    IF dates = {} THEN <<>>
    ELSE LET latest == CHOOSE d \in dates : \A e \in dates : d - e >= 0
         IN  SelectSeq(emails, LAMBDA email : emailDateForSort(email) = latest)
                 \o sortByDates(emails, dates \ {latest})

\* emails.sort((a, b) => emailDateForSort(b) - emailDateForSort(a))
sortByDateDesc(emails) ==
    CHOOSE result \in
        {sortByDates(all, {emailDateForSort(all[i]) : i \in 1..Len(all)}) :
            all \in {emails}} : TRUE

\* users.messages.list with maxResults: the first maxResults listed messages
listMessages(mailbox, maxResults) ==
    SubSeq(mailbox, 1, Min2(maxResults, Len(mailbox)))

\* GmailAccountClient.fetchMessages, once the API answers
fetchMessages(account, mailbox, maxResults) ==
    LET boundedMax == Max2(MinResults, Min2(maxResults, MaxResults))
        listed == listMessages(mailbox, boundedMax)
    IN  sortByDateDesc([i \in 1..Len(listed) |-> parseMessage(account, listed[i])])

\* the message of the error a per-account operation ends with, <<>> for none:
\* GmailAccountClient.create reads the credentials file, then the token file;
\* the API call follows
operationError(w) ==
    IF ~w.creds THEN <<"ENOENT">>
    ELSE IF ~w.token THEN <<"Token file missing or invalid">>
    ELSE IF w.api = "fail" THEN <<"boom">>
    ELSE <<>>

\* an operation that never settles: the client is built and the API hangs
operationHangs(w) == w.creds /\ w.token /\ w.api = "hang"

\* `${account.id}: ${(error as Error).message}`
diagnostic(account, message) == account.id \o <<":", " ">> \o message

Running(account) ==
    [account |-> account, status |-> "running", emails |-> <<>>, error |-> <<>>,
     order |-> 0]

\* the body of the async callback handed to targetAccounts.map, from the
\* client's creation to the result object it returns; order records the
\* position in which the callback returned among those of the call
accountResult(account, w, maxResults) ==
    IF operationError(w) = <<>>
    THEN [account |-> account, status |-> "done",
          emails |-> fetchMessages(account, w.msgs, maxResults), error |-> <<>>,
          order |-> 0]
    ELSE [account |-> account, status |-> "done",
          emails |-> <<>>, error |-> diagnostic(account, operationError(w)),
          order |-> 0]

RECURSIVE flatEmails(_)
flatEmails(accountResults) ==
    IF accountResults = <<>> THEN <<>>
    ELSE Head(accountResults).emails \o flatEmails(Tail(accountResults))

\* mutant: the concatenation is not sorted
mergeResults_unsorted(accountResults) == flatEmails(accountResults)

\* mutant: the results are flattened in the order in which they returned
byCompletion(accountResults) ==
    IF {accountResults[k].order : k \in 1..Len(accountResults)}
          = 1..Len(accountResults)
    THEN [i \in 1..Len(accountResults) |->
            accountResults[CHOOSE k \in 1..Len(accountResults) :
                              accountResults[k].order = i]]
    ELSE accountResults
mergeResults_byCompletion(accountResults) ==
    sortByDateDesc(flatEmails(byCompletion(accountResults)))

\* accountResults.flatMap((result) => result.emails).sort(...)
mergeResults(accountResults) == sortByDateDesc(flatEmails(accountResults))

\* accountResults.map((result) => result.error).filter(Boolean)
RECURSIVE collectErrors(_)
collectErrors(accountResults) ==
    IF accountResults = <<>> THEN <<>>
    ELSE (IF Head(accountResults).error # <<>>
          THEN <<Head(accountResults).error>> ELSE <<>>)
         \o collectErrors(Tail(accountResults))

\* mutant: the slice stops one item early
sliceTo_offByOne(merged, maxResults) ==
    SubSeq(merged, 1, Min2(maxResults - 1, Len(merged)))

\* merged.slice(0, maxResults)
sliceTo(merged, maxResults) == SubSeq(merged, 1, Min2(maxResults, Len(merged)))


\* --------------------------------------------------------------- onboarding
\* What begin_account_auth and finish_account_auth read and write: the
\* registry file, and per account a credentials file and a token file.

\* the account ids the onboarding calls are made for
OnboardIds == {<<"a">>, <<"b">>}

\* a file that does not exist
NoFile == [t |-> "absent", client |-> FALSE, rev |-> "none"]

\* a credentials document: a JSON object, with or without client_id and
\* client_secret under "installed" or "web"; rev tells two documents apart
ClientDoc(rev) == [t |-> "object", client |-> TRUE, rev |-> rev]
BareDoc == [t |-> "object", client |-> FALSE, rev |-> "bare"]

\* the credentials_json argument: missing, a string that is JSON or not, an
\* object, or a value of another type
NoCredentialsArg == [t |-> "undefined", parses |-> FALSE, doc |-> NoFile]
JsonText(doc) == [t |-> "string", parses |-> TRUE, doc |-> doc]
BadJsonText == [t |-> "string", parses |-> FALSE, doc |-> NoFile]
JsonObject(doc) == [t |-> "object", parses |-> TRUE, doc |-> doc]
OtherArg == [t |-> "number", parses |-> FALSE, doc |-> NoFile]

Parsed(doc) == [ok |-> TRUE, error |-> "none", doc |-> doc]
ParseFailed(error) == [ok |-> FALSE, error |-> error, doc |-> NoFile]

\* readCredentialsFile: fs.readFile then JSON.parse of what was written
readCredentialsFile(file) ==
    IF file = NoFile THEN ParseFailed("CredentialsUnreadable") ELSE Parsed(file)

\* parseCredentialsInput, with no credentials_path argument
parseCredentialsInput(credentials_json, file) ==
    IF credentials_json.t # "undefined"
    THEN IF credentials_json.t = "string"
         THEN (IF credentials_json.parses THEN Parsed(credentials_json.doc)
               ELSE ParseFailed("CredentialsUnparsable"))
         ELSE IF credentials_json.t = "object" THEN Parsed(credentials_json.doc)
         ELSE ParseFailed("ValidationError")
    ELSE readCredentialsFile(file)

\* createOAuthClientFromCredentials: TRUE when it returns a client, FALSE
\* when it throws
createOAuthClientFromCredentials(credentials) ==
    credentials.t = "object" /\ credentials.client

\* the registry loadAccountsConfig makes when there is no file
emptyConfig == [defaultAccount |-> Null, accounts |-> <<>>]

\* mutant: the entry is always appended
upsertAccount_append(config, nextAccount) ==
    [config EXCEPT !.accounts = Append(@, nextAccount)]

upsertAccount(config, nextAccount) ==
    LET existingIndex == findIndex(config.accounts, nextAccount.id)
    IN  IF existingIndex = 0
        THEN [config EXCEPT !.accounts = Append(@, nextAccount)]
        ELSE [config EXCEPT !.accounts[existingIndex] = nextAccount]

\* an entry of the registry as the onboarding steps write it
Entry(id, email, enabled) == [id |-> id, email |-> email, enabled |-> enabled]

\* the token payload of the OAuth exchange
Tokens(access, refresh) == [t |-> "tokens", access |-> access, refresh |-> refresh]
NoTokenFile == [t |-> "absent", access |-> FALSE, refresh |-> FALSE]
\* the exchange is rejected (getToken throws)
Rejected == [t |-> "rejected", access |-> FALSE, refresh |-> FALSE]

\* ------------------------------------------------------------------- state
ReadTools == {"read_emails", "search_emails"}
WriteTools ==
    {"get_email_thread", "get_labels", "mark_as_read", "add_labels",
     "remove_labels", "archive_emails", "trash_emails", "create_label",
     "delete_label", "create_draft", "send_email"}
Tools == ReadTools \cup WriteTools

VARIABLES
    registry,        \* accounts.json: [defaultAccount, accounts]
    world,           \* per account id: files present, API behaviour, mailbox
    request,         \* the tool call: [tool, account, max_results, query]
    pc,              \* "ready", "gather", "write", "done"
    config,          \* the registry the handler loaded
    targetAccounts,  \* the accounts the resolver returned
    maxResults,      \* the clamped limit, 0 before it is computed
    accountResults,  \* one entry per target account
    merged,          \* the sorted concatenation, before truncation
    response,        \* [kind, error, totalFound, returned, errors]
    invoked          \* per account id: per-account operations started

vars == <<registry, world, request, pc, config, targetAccounts, maxResults,
          accountResults, merged, response, invoked>>

\* the persisted state and the onboarding calls in progress
VARIABLES
    disk,            \* [accounts: accounts.json, credentials, tokens: per id]
    calls,           \* one record per tool call that touches the registry
    history          \* [clock, written, initial]: what has happened to disk

onboardVars == <<disk, calls, history>>

\* the token file of one account, the clients made for it, and the process
VARIABLES
    tokenArtifact,   \* token.json of the account: [state, tokens]
    clients,         \* one record per tool call that built a client
    issued,          \* how many times the provider has issued fresh tokens
    alive            \* the process has not exited

refreshVars == <<tokenArtifact, clients, issued, alive>>

\* upsertAccount called on a registry object
VARIABLES
    upsertGiven,     \* the registry passed as config, as it was at the call
    upsertConfig,    \* the same object after the call
    nextEntry,       \* the account passed as nextAccount
    upsertResult,    \* the registry returned
    upsertCalls      \* how many calls have been made

upsertVars == <<upsertGiven, upsertConfig, nextEntry, upsertResult, upsertCalls>>

\* one tool call with its arguments, and the requests it sends out
VARIABLES
    toolArgs,        \* [tool, account, message_ids, label_ids, text]
    toolFiles,       \* [registry, token, api]: what the call finds
    toolPc,          \* "ready", "create", "method", "sent", "done"
    toolAccounts,    \* the accounts the resolver returned
    outbound,        \* the mail-API requests sent, in order
    toolError        \* "none" or the error the call ended with

argsVars == <<toolArgs, toolFiles, toolPc, toolAccounts, outbound, toolError>>

\* what the handlers of one part of the program leave alone
besideTools == <<onboardVars, refreshVars, upsertVars, argsVars>>
besideOnboarding == <<vars, refreshVars, upsertVars, argsVars>>
besideRefresh == <<vars, onboardVars, upsertVars, argsVars>>
besideUpsert == <<vars, onboardVars, refreshVars, argsVars>>
besideArgs == <<vars, onboardVars, refreshVars, upsertVars>>

\* a token document: the issue numbers of its access and refresh tokens
Credentials(access, refresh) == [access |-> access, refresh |-> refresh]
TokenWritten(tokens) == [state |-> "written", tokens |-> tokens]
TokenTruncated == [state |-> "truncated", tokens |-> Credentials(0, 0)]
TokenAbsent == [state |-> "absent", tokens |-> Credentials(0, 0)]

\* a tool call that has not arrived
IdleClient ==
    [pc |-> "ready", error |-> "none", cachedTokens |-> Credentials(0, 0),
     writes |-> <<>>]
NoClients == [c \in {} |-> IdleClient]
RefreshIdle ==
    /\ tokenArtifact = TokenAbsent
    /\ clients = NoClients
    /\ issued = 0
    /\ alive = TRUE


\* accounts.json: absent, opened for writing and still empty, or written
NoAccountsFile == [state |-> "absent", config |-> emptyConfig]
TruncatedFile == [state |-> "truncated", config |-> emptyConfig]
WrittenFile(content) == [state |-> "written", config |-> content]

\* a config root with nothing in it
NoDisk ==
    [accounts |-> NoAccountsFile,
     credentials |-> [id \in OnboardIds |-> NoFile],
     tokens |-> [id \in OnboardIds |-> NoTokenFile]]

\* the ids of the entries of a registry
IdsOf(cfg) == {cfg.accounts[i].id : i \in 1..Len(cfg.accounts)}

NoHistory(initial) ==
    [clock |-> 0,
     written |-> IdsOf(loadAccountsConfig(initial.accounts.config)),
     initial |-> initial]

\* no onboarding call has arrived
OnboardIdle == disk = NoDisk /\ calls = <<>> /\ history = NoHistory(NoDisk)

\* a JavaScript array of strings, and a value that is not an array
Arr(items) == [t |-> "array", items |-> items]
NotArray == [t |-> "undefined", items |-> <<>>]
ToolArgs(tool, account, message_ids, label_ids, text) ==
    [tool |-> tool, account |-> account, message_ids |-> message_ids,
     label_ids |-> label_ids, text |-> text]

\* no tool call with arguments has arrived
ArgsIdle ==
    /\ toolArgs = ToolArgs("none", Undefined, NotArray, NotArray, Undefined)
    /\ toolFiles = [registry |-> emptyConfig, token |-> FALSE, api |-> "ok"]
    /\ toolPc = "done"
    /\ toolAccounts = <<>>
    /\ outbound = <<>>
    /\ toolError = "none"

\* upsertAccount has not been called
UpsertIdle ==
    /\ upsertGiven = emptyConfig
    /\ upsertConfig = emptyConfig
    /\ nextEntry = Entry(<<>>, "", FALSE)
    /\ upsertResult = emptyConfig
    /\ upsertCalls = 0

NoResponse ==
    [kind |-> "none", error |-> "none", totalFound |-> 0,
     returned |-> <<>>, errors |-> <<>>]
ErrorResponse(error) ==
    [kind |-> "error", error |-> error, totalFound |-> 0,
     returned |-> <<>>, errors |-> <<>>]
ListResponse(totalFound, returned, errors) ==
    [kind |-> "list", error |-> "none", totalFound |-> totalFound,
     returned |-> returned, errors |-> errors]
WriteResponse ==
    [kind |-> "written", error |-> "none", totalFound |-> 0,
     returned |-> <<>>, errors |-> <<>>]

\* ----------------------------------------------------------------- actions
\* The handler throws before any per-account operation starts.
Throw(error) ==
    /\ pc' = "done"
    /\ response' = ErrorResponse(error)
    /\ UNCHANGED <<targetAccounts, maxResults, accountResults, merged, invoked>>

\* mutant: the callbacks run one after the other, so only the first account's
\* operation has started when the handler first waits
startOperations_sequential(accounts, limit) ==
    /\ targetAccounts' = accounts
    /\ maxResults' = limit
    /\ accountResults' = [i \in 1..Len(accounts) |-> Running(accounts[i])]
    /\ invoked' = [invoked EXCEPT ![accounts[1].id] = @ + 1]
    /\ pc' = "gather"
    /\ UNCHANGED <<merged, response>>

\* mutant: only accounts whose credentials and token files exist are kept
startOperations_readyOnly(accounts, limit) ==
    LET ready == SelectSeq(accounts,
                    LAMBDA a : world[a.id].creds /\ world[a.id].token)
    IN  /\ targetAccounts' = ready
        /\ maxResults' = limit
        /\ accountResults' = [i \in 1..Len(ready) |-> Running(ready[i])]
        /\ invoked' = [id \in DOMAIN invoked |->
                          invoked[id]
                          + Cardinality({i \in 1..Len(ready) : ready[i].id = id})]
        /\ pc' = "gather"
        /\ UNCHANGED <<merged, response>>

\* targetAccounts.map(async (account) => ...): every callback is called, and
\* runs to its first await, before Promise.all is awaited.
startOperations(accounts, limit) ==
    /\ targetAccounts' = accounts
    /\ maxResults' = limit
    /\ accountResults' = [i \in 1..Len(accounts) |-> Running(accounts[i])]
    /\ invoked' = [id \in DOMAIN invoked |->
                      invoked[id]
                      + Cardinality({i \in 1..Len(accounts) : accounts[i].id = id})]
    /\ pc' = "gather"
    /\ UNCHANGED <<merged, response>>

handleReadEmails ==
    /\ pc = "ready"
    /\ request.tool = "read_emails"
    /\ LET account == orUndefined(trim(valueToString(request.account, <<>>)))
           loaded == loadAccountsConfig(registry)
           resolved == resolveReadAccounts(loaded, account)
           limit == clamp(valueToNumber(request.max_results, ReadDefault),
                          MinResults, MaxResults)
       IN  /\ config' = loaded
           /\ IF resolved.ok
              THEN startOperations(resolved.accounts, limit)
              ELSE Throw(resolved.error)
    /\ UNCHANGED <<registry, world, request>>
    /\ UNCHANGED besideTools

handleSearchEmails ==
    /\ pc = "ready"
    /\ request.tool = "search_emails"
    /\ LET account == orUndefined(trim(valueToString(request.account, <<>>)))
           query == valueToString(request.query, <<>>)
           loaded == loadAccountsConfig(registry)
           resolved == resolveReadAccounts(loaded, account)
           limit == clamp(valueToNumber(request.max_results, SearchDefault),
                          MinResults, MaxResults)
       IN  IF query = <<>> \/ trim(query) = <<>>
           THEN Throw("ValidationError") /\ UNCHANGED config
           ELSE /\ config' = loaded
                /\ IF resolved.ok
                   THEN startOperations(resolved.accounts, limit)
                   ELSE Throw(resolved.error)
    /\ UNCHANGED <<registry, world, request>>
    /\ UNCHANGED besideTools

\* one per-account callback runs to its return (success or caught failure)
settleOperation(i) ==
    /\ pc = "gather"
    /\ i \in 1..Len(accountResults)
    /\ accountResults[i].status = "running"
    /\ ~operationHangs(world[targetAccounts[i].id])
    /\ accountResults' =
          [accountResults EXCEPT
              ![i] = [accountResult(targetAccounts[i],
                                    world[targetAccounts[i].id], maxResults)
                         EXCEPT !.order = 1 + Cardinality(
                            {k \in 1..Len(accountResults) :
                                accountResults[k].status = "done"})]]
    /\ UNCHANGED <<registry, world, request, pc, config, targetAccounts,
                   maxResults, merged, response, invoked>>
    /\ UNCHANGED besideTools

\* mutant: the handler goes on as soon as one callback has returned
allSettled_some(results) == \E i \in 1..Len(results) : results[i].status = "done"

\* Promise.all resolves when every callback has returned
allSettled(results) == \A i \in 1..Len(results) : results[i].status = "done"

\* mutant: without the try/catch, one failed operation rejects Promise.all
aggregateResults_failFast ==
    /\ pc = "gather"
    /\ allSettled(accountResults)
    /\ merged' = mergeResults(accountResults)
    /\ response' = IF collectErrors(accountResults) # <<>>
                   THEN ErrorResponse("ExternalCollaboratorError")
                   ELSE ListResponse(Len(mergeResults(accountResults)),
                                     sliceTo(mergeResults(accountResults), maxResults),
                                     collectErrors(accountResults))
    /\ pc' = "done"
    /\ UNCHANGED <<registry, world, request, config, targetAccounts,
                   maxResults, accountResults, invoked>>
    /\ UNCHANGED besideTools

\* the handler after `await Promise.all(...)`: merge, sort, collect, slice
aggregateResults ==
    /\ pc = "gather"
    /\ allSettled(accountResults)
    /\ merged' = mergeResults(accountResults)
    /\ response' = ListResponse(Len(mergeResults(accountResults)),
                                sliceTo(mergeResults(accountResults), maxResults),
                                collectErrors(accountResults))
    /\ pc' = "done"
    /\ UNCHANGED <<registry, world, request, config, targetAccounts,
                   maxResults, accountResults, invoked>>
    /\ UNCHANGED besideTools

\* every write/admin handler: load, resolveWriteAccount, then the client
handleWriteTool ==
    /\ pc = "ready"
    /\ request.tool \in WriteTools
    /\ LET loaded == loadAccountsConfig(registry)
           resolved == resolveWriteAccount(loaded,
                          Str(valueToString(request.account, <<>>)))
       IN  /\ config' = loaded
           /\ IF resolved.ok
              THEN /\ targetAccounts' = resolved.accounts
                   /\ invoked' = [invoked EXCEPT
                                     ![resolved.accounts[1].id] = @ + 1]
                   /\ pc' = "write"
                   /\ UNCHANGED <<maxResults, accountResults, merged, response>>
              ELSE Throw(resolved.error)
    /\ UNCHANGED <<registry, world, request>>
    /\ UNCHANGED besideTools

\* the client call of a write/admin handler returns or throws
settleWriteTool ==
    /\ pc = "write"
    /\ ~operationHangs(world[targetAccounts[1].id])
    /\ response' = IF operationError(world[targetAccounts[1].id]) = <<>>
                   THEN WriteResponse
                   ELSE ErrorResponse("ExternalCollaboratorError")
    /\ pc' = "done"
    /\ UNCHANGED <<registry, world, request, config, targetAccounts,
                   maxResults, accountResults, merged, invoked>>
    /\ UNCHANGED besideTools

\* getAccountHealth: whether the two files of the account exist
getAccountHealth(account, w) ==
    [account |-> account,
     hasCredentialsFile |-> w.creds,
     hasTokenFile |-> w.token,
     ready |-> account.enabled /\ w.creds /\ w.token]

\* handleListAccounts: load the registry, report the health of every account
listAccountHealth ==
    /\ pc = "ready"
    /\ request.tool = "list_accounts"
    /\ LET loaded == loadAccountsConfig(registry)
       IN  /\ config' = loaded
           /\ response' =
                 [kind |-> "accounts", error |-> "none",
                  totalFound |-> Len(loaded.accounts),
                  returned |-> [i \in 1..Len(loaded.accounts) |->
                                  getAccountHealth(loaded.accounts[i],
                                                   world[loaded.accounts[i].id])],
                  errors |-> <<>>]
    /\ pc' = "done"
    /\ UNCHANGED <<registry, world, request, targetAccounts, maxResults,
                   accountResults, merged, invoked>>
    /\ UNCHANGED besideTools

Next ==
    \/ handleReadEmails
    \/ handleSearchEmails
    \/ listAccountHealth
    \/ \E i \in 1..Len(accountResults) : settleOperation(i)
    \/ aggregateResults
    \/ handleWriteTool
    \/ settleWriteTool

\* ------------------------------------------------------------ initial states
\* The registry file, the outside world and the incoming tool call are
\* inputs.  Registries hold distinct ids, as upsertAccount keeps them.
MkAccount(id, enabled) ==
    [id |-> id, email |-> id \o <<"@x.com">>, enabled |-> enabled]

RegistryIds == {<<"a">>, <<"b">>, <<"a", "b">>}
ExampleIds == {<<"a">>, <<"b">>, <<"c">>}
AllIds == RegistryIds \cup ExampleIds

AccountSeqs(n) ==
    {s \in SeqsUpTo(RegistryIds \X BOOLEAN, n) :
        \A i, j \in 1..Len(s) : i # j => s[i][1] # s[j][1]}

Registries ==
    UNION {{[defaultAccount |-> d,
             accounts |-> [i \in 1..Len(s) |-> MkAccount(s[i][1], s[i][2])]] :
               d \in {Null} \cup {Str(s[i][1]) : i \in 1..Len(s)}} :
           s \in AccountSeqs(MaxAccounts)}

Registry(accounts) == [defaultAccount |-> Null, accounts |-> accounts]

Mailbox(dates) ==
    [i \in 1..Len(dates) |-> [id |-> i, internalDate |-> dates[i]]]

Healthy(mailbox) ==
    [creds |-> TRUE, token |-> TRUE, api |-> "ok", msgs |-> mailbox]
NoCreds == [creds |-> FALSE, token |-> TRUE, api |-> "ok", msgs |-> <<>>]
NoToken == [creds |-> TRUE, token |-> FALSE, api |-> "ok", msgs |-> <<>>]
ApiFail == [creds |-> TRUE, token |-> TRUE, api |-> "fail", msgs |-> <<>>]
ApiHang == [creds |-> TRUE, token |-> TRUE, api |-> "hang", msgs |-> <<>>]

\* a provider timestamp: absent, unparseable, or a number
RawDates == {Undefined, NotFinite} \cup {Num(d) : d \in 0..MaxDate}
GeneralMailboxes == {Mailbox(dates) : dates \in SeqsUpTo(RawDates, MaxItems)}
GeneralWorlds ==
    {NoCreds, NoToken, ApiFail, ApiHang}
    \cup {Healthy(mailbox) : mailbox \in GeneralMailboxes}
FewWorlds == {Healthy(Mailbox(<<Num(1)>>)), NoToken, ApiFail, ApiHang}

QuietWorld == [id \in AllIds |-> Healthy(Mailbox(<<Num(1)>>))]
WorldOf(a, b, c) ==
    [id \in AllIds |->
        IF id = <<"a">> THEN a ELSE IF id = <<"b">> THEN b
        ELSE IF id = <<"c">> THEN c ELSE Healthy(<<>>)]

RawAccounts ==
    {Undefined, Num(7)} \cup {Str(s) : s \in SeqsUpTo(ArgChars, MaxArgLen)}
RawQueries == {Undefined, Str(<<>>), Str(<<" ">>), Str(<<"q">>)}
RawMaxResults ==
    {Undefined, Str(<<"q">>), NotFinite, Num(0 - 3), Num(0), Num(1), Num(2),
     Num(10), Num(100), Num(101), Num(1000)}

Request(tool, account, max, query) ==
    [tool |-> tool, account |-> account, max_results |-> max, query |-> query]

\* every account argument against every registry
InitResolve ==
    /\ registry \in Registries
    /\ world = QuietWorld
    /\ request \in {Request(tool, account, Undefined, Str(<<"q">>)) :
                      tool \in {"read_emails", "search_emails", "send_email"},
                      account \in RawAccounts}

\* every tool, with every account argument and every outcome of its account
InitTools ==
    /\ registry \in
          {[defaultAccount |-> d,
            accounts |-> <<MkAccount(<<"a">>, TRUE), MkAccount(<<"b">>, FALSE)>>] :
              d \in {Null, Str(<<"a">>)}}
    /\ world \in {WorldOf(a, Healthy(<<>>), Healthy(<<>>)) : a \in FewWorlds}
    /\ request \in
          {Request(tool, account, Undefined, Str(<<"q">>)) :
              tool \in Tools, account \in RawAccounts}
          \cup {Request("search_emails", account, Undefined, query) :
              account \in RawAccounts, query \in RawQueries}

\* the aggregate read over two enabled accounts, every pair of outcomes
InitFanOut ==
    /\ registry = Registry(<<MkAccount(<<"a">>, TRUE), MkAccount(<<"b">>, TRUE)>>)
    /\ world \in {WorldOf(a, b, Healthy(<<>>)) :
                    a \in GeneralWorlds, b \in GeneralWorlds}
    /\ request \in {Request(tool, Undefined, max, Str(<<"q">>)) :
                      tool \in ReadTools, max \in {Undefined, Num(1), Num(2)}}
                   \cup {Request("list_accounts", Undefined, Undefined, Undefined)}

\* A holds [100, 50], B holds [200], C fails with "boom"; limit 10
ExampleMerge ==
    /\ registry = Registry(<<MkAccount(<<"a">>, TRUE), MkAccount(<<"b">>, TRUE),
                             MkAccount(<<"c">>, TRUE)>>)
    /\ world = WorldOf(Healthy(Mailbox(<<Num(100), Num(50)>>)),
                       Healthy(Mailbox(<<Num(200)>>)), ApiFail)
    /\ request \in {Request(tool, Undefined, Num(10), Str(<<"q">>)) :
                      tool \in ReadTools}

\* A holds [90, 80, 70], B holds [60]; limit 2
ExampleTruncate ==
    /\ registry = Registry(<<MkAccount(<<"a">>, TRUE), MkAccount(<<"b">>, TRUE)>>)
    /\ world = WorldOf(Healthy(Mailbox(<<Num(90), Num(80), Num(70)>>)),
                       Healthy(Mailbox(<<Num(60)>>)), Healthy(<<>>))
    /\ request \in {Request(tool, Undefined, Num(2), Str(<<"q">>)) :
                      tool \in ReadTools}

\* two mailboxes of more than 100 messages, every max_results value
BigMailbox == [i \in 1..BigLen |-> [id |-> i, internalDate |-> Num(i % 3)]]

InitBig ==
    /\ registry = Registry(<<MkAccount(<<"a">>, TRUE), MkAccount(<<"b">>, TRUE)>>)
    /\ world = WorldOf(Healthy(BigMailbox), Healthy(BigMailbox), Healthy(<<>>))
    /\ request \in {Request(tool, Undefined, max, Str(<<"q">>)) :
                      tool \in ReadTools, max \in RawMaxResults}

Init ==
    /\ \/ InitResolve
       \/ InitTools
       \/ InitFanOut
       \/ ExampleMerge
       \/ ExampleTruncate
       \/ InitBig
    /\ pc = "ready"
    /\ config = Registry(<<>>)
    /\ targetAccounts = <<>>
    /\ maxResults = 0
    /\ accountResults = <<>>
    /\ merged = <<>>
    /\ response = NoResponse
    /\ invoked = [id \in AllIds |-> 0]
    /\ disk = NoDisk
    /\ calls = <<>>
    /\ history = NoHistory(NoDisk)
    /\ RefreshIdle
    /\ UpsertIdle
    /\ ArgsIdle

Spec == Init /\ [][Next]_vars

\* The event loop runs every continuation that is ready: an operation whose
\* I/O answers returns, and the handler resumes once Promise.all resolves.
FairSpec ==
    /\ Spec
    /\ WF_vars(aggregateResults)
    /\ WF_vars(settleWriteTool)
    /\ \A i \in 1..Cardinality(AllIds) : WF_vars(settleOperation(i))

\* ------------------------------------------------------------- onboarding
\* Tool calls that read and write the registry file, each running between
\* its awaits while the others wait: one action is one such stretch.

\* how many such calls are followed
MaxCalls == 2

\* the arguments the calls are made with
BeginRequests ==
    (OnboardIds \X {"e1"}
        \X {JsonText(ClientDoc("c1")), JsonText(BareDoc), BadJsonText,
            NoCredentialsArg, OtherArg})
    \cup {<<<<>>, "e1", JsonText(ClientDoc("c1"))>>,
          <<<<"/">>, "e1", JsonText(ClientDoc("c1"))>>,
          <<<<"a">>, "", JsonText(ClientDoc("c1"))>>}
FinishRequests ==
    (OnboardIds \X {"code"}) \cup {<<<<>>, "code">>, <<<<"/">>, "code">>, <<<<"a">>, "">>}

\* what the OAuth endpoint and the profile endpoint may answer
ExchangeOutcomes ==
    {Rejected, Tokens(FALSE, FALSE), Tokens(TRUE, FALSE), Tokens(FALSE, TRUE)}
ProfileOutcomes == {"failed", "p@provider"}

IdleCall ==
    [kind |-> "none", account_id |-> <<>>, email |-> "",
     credentials_json |-> NoCredentialsArg, authorization_code |-> "",
     pc |-> "ready", resume |-> "done", error |-> "none",
     config |-> emptyConfig, saving |-> emptyConfig, credentials |-> NoFile,
     tokens |-> NoTokenFile, profile |-> "none",
     before |-> NoDisk, startedAt |-> 0, mutations |-> 0]

\* the handler throws: the call ends with the error
Failed(call, error) == [call EXCEPT !.pc = "done", !.error = error]

\* a write to the config root
mutate(next) ==
    /\ disk' = next
    /\ history' = [history EXCEPT
                      !.clock = @ + 1,
                      !.written = @ \cup (IF next.accounts.state = "written"
                                          THEN IdsOf(next.accounts.config)
                                          ELSE {})]

\* calls are numbered in the order they arrive
MayStart(c) ==
    /\ calls[c].pc = "ready"
    /\ \A d \in 1..(c - 1) : calls[d].pc # "ready"

Arrived(kind) ==
    [IdleCall EXCEPT !.kind = kind, !.before = disk, !.startedAt = history.clock]

\* mutant: begin_account_auth writes its entry enabled
afterLoad_beginEnabled(call, loaded) ==
    IF call.kind = "begin"
    THEN [call EXCEPT
             !.config = loaded,
             !.saving = upsertAccount(loaded, Entry(call.account_id, call.email, TRUE)),
             !.pc = "open",
             !.resume = "done"]
    ELSE IF call.kind = "finish"
    THEN (IF getAccountOrThrow(loaded, call.account_id).ok
          THEN [call EXCEPT !.config = loaded, !.pc = "exchange"]
          ELSE Failed([call EXCEPT !.config = loaded],
                      getAccountOrThrow(loaded, call.account_id).error))
    ELSE [call EXCEPT !.config = loaded, !.pc = "done"]

\* what a handler does when loadConfig has returned
afterLoad(call, loaded) ==
    IF call.kind = "begin"
    THEN [call EXCEPT
             !.config = loaded,
             !.saving = upsertAccount(loaded, Entry(call.account_id, call.email, FALSE)),
             !.pc = "open",
             !.resume = "done"]
    ELSE IF call.kind = "finish"
    THEN (IF getAccountOrThrow(loaded, call.account_id).ok
          THEN [call EXCEPT !.config = loaded, !.pc = "exchange"]
          ELSE Failed([call EXCEPT !.config = loaded],
                      getAccountOrThrow(loaded, call.account_id).error))
    ELSE [call EXCEPT !.config = loaded, !.pc = "done"]

\* handleBeginAccountAuth up to ensureConfigLayout
handleBeginAccountAuth(c) ==
    /\ MayStart(c)
    /\ \E r \in BeginRequests :
          LET call == [Arrived("begin") EXCEPT
                          !.account_id = r[1], !.email = r[2],
                          !.credentials_json = r[3]]
          IN  calls' = [calls EXCEPT ![c] =
                  IF call.account_id = <<>> \/ call.email = ""
                  THEN Failed(call, "ValidationError")
                  ELSE IF ~validateAccountId(call.account_id)
                  THEN Failed(call, "InvalidAccountId")
                  ELSE [call EXCEPT !.pc = "parse"]]
    /\ UNCHANGED <<disk, history>>
    /\ UNCHANGED besideOnboarding

\* parseCredentialsInput
parseCredentials(c) ==
    /\ calls[c].pc = "parse"
    /\ LET call == calls[c]
           parsed == parseCredentialsInput(call.credentials_json,
                                           disk.credentials[call.account_id])
       IN  calls' = [calls EXCEPT ![c] =
               IF parsed.ok
               THEN [call EXCEPT !.credentials = parsed.doc, !.pc = "writeCredentials"]
               ELSE Failed(call, parsed.error)]
    /\ UNCHANGED <<disk, history>>
    /\ UNCHANGED besideOnboarding

\* fs.writeFile(defaultPaths.credentialsPath, ...)
writeCredentialsFile(c) ==
    /\ calls[c].pc = "writeCredentials"
    /\ mutate([disk EXCEPT !.credentials[calls[c].account_id] = calls[c].credentials])
    /\ calls' = [calls EXCEPT ![c].pc = "load", ![c].mutations = @ + 1]
    /\ UNCHANGED besideOnboarding

\* generateAuthUrlFromCredentials (begin only), then loadAccountsConfig up to
\* its fs.readFile
loadConfig(c) ==
    /\ calls[c].pc = "load"
    /\ LET call == calls[c]
       IN  calls' = [calls EXCEPT ![c] =
               IF call.kind = "begin" /\ ~createOAuthClientFromCredentials(call.credentials)
               THEN Failed(call, "CredentialsInvalid")
               ELSE IF disk.accounts.state = "absent"
               THEN [call EXCEPT !.config = emptyConfig, !.saving = emptyConfig,
                                 !.pc = "open", !.resume = "loaded"]
               ELSE IF disk.accounts.state = "truncated"
                       \/ loadThrows(disk.accounts.config)
               THEN Failed(call, "ConfigCorrupt")
               ELSE afterLoad(call, loadAccountsConfig(disk.accounts.config))]
    /\ UNCHANGED <<disk, history>>
    /\ UNCHANGED besideOnboarding

\* handleFinishAccountAuth up to loadConfig
handleFinishAccountAuth(c) ==
    /\ MayStart(c)
    /\ \E r \in FinishRequests :
          LET call == [Arrived("finish") EXCEPT
                          !.account_id = r[1], !.authorization_code = r[2]]
          IN  calls' = [calls EXCEPT ![c] =
                  IF call.account_id = <<>> \/ call.authorization_code = ""
                  THEN Failed(call, "ValidationError")
                  ELSE IF ~validateAccountId(call.account_id)
                  THEN Failed(call, "InvalidAccountId")
                  ELSE [call EXCEPT !.pc = "load"]]
    /\ UNCHANGED <<disk, history>>
    /\ UNCHANGED besideOnboarding

\* a call that only loads the registry (handleListAccounts, and the mail
\* tools before they resolve their accounts)
handleListAccounts(c) ==
    /\ MayStart(c)
    /\ calls' = [calls EXCEPT ![c] = [Arrived("load") EXCEPT !.pc = "load"]]
    /\ UNCHANGED <<disk, history>>
    /\ UNCHANGED besideOnboarding

\* the account a finish call works on: getAccountOrThrow on its registry
accountOf(call) == getAccountOrThrow(call.config, call.account_id).accounts[1]

\* mutant: the token file is written before the payload is looked at
exchangeCodeForToken_writeFirst(c) ==
    /\ calls[c].pc = "exchange"
    /\ \E answer \in ExchangeOutcomes \ {Rejected} :
          /\ mutate([disk EXCEPT !.tokens[calls[c].account_id] = answer])
          /\ calls' = [calls EXCEPT ![c] =
                IF ~answer.access /\ ~answer.refresh
                THEN Failed([calls[c] EXCEPT !.tokens = answer, !.mutations = @ + 1],
                            "TokenExchangeIncomplete")
                ELSE [calls[c] EXCEPT !.tokens = answer, !.mutations = @ + 1,
                                      !.pc = "writeToken"]]
    /\ UNCHANGED besideOnboarding

\* readCredentialsFile, exchangeCodeForToken and the check of the payload
exchangeCodeForToken(c) ==
    /\ calls[c].pc = "exchange"
    /\ LET call == calls[c]
           credentials == readCredentialsFile(disk.credentials[call.account_id])
       IN  IF ~credentials.ok
           THEN calls' = [calls EXCEPT ![c] = Failed(call, credentials.error)]
           ELSE IF ~createOAuthClientFromCredentials(credentials.doc)
           THEN calls' = [calls EXCEPT ![c] = Failed(call, "CredentialsInvalid")]
           ELSE \E answer \in ExchangeOutcomes :
                   calls' = [calls EXCEPT ![c] =
                       IF answer = Rejected
                       THEN Failed([call EXCEPT !.tokens = answer],
                                   "ExternalCollaboratorError")
                       ELSE IF ~answer.access /\ ~answer.refresh
                       THEN Failed([call EXCEPT !.tokens = answer],
                                   "TokenExchangeIncomplete")
                       ELSE [call EXCEPT !.tokens = answer, !.pc = "writeToken"]]
    /\ UNCHANGED <<disk, history>>
    /\ UNCHANGED besideOnboarding

\* mutant: tempConfig is made and saved without the token file being written
writeTokenFile_skipped(c) ==
    /\ calls[c].pc = "writeToken"
    /\ LET call == calls[c]
           tempConfig == upsertAccount(call.config,
                             [accountOf(call) EXCEPT !.enabled = TRUE])
       IN  calls' = [calls EXCEPT ![c] =
               [call EXCEPT !.config = tempConfig, !.saving = tempConfig,
                            !.pc = "open", !.resume = "profile"]]
    /\ UNCHANGED <<disk, history>>
    /\ UNCHANGED besideOnboarding

\* fs.writeFile(paths.tokenPath, ...), then tempConfig is made
writeTokenFile(c) ==
    /\ calls[c].pc = "writeToken"
    /\ mutate([disk EXCEPT !.tokens[calls[c].account_id] = calls[c].tokens])
    /\ LET call == calls[c]
           tempConfig == upsertAccount(call.config,
                             [accountOf(call) EXCEPT !.enabled = TRUE])
       IN  calls' = [calls EXCEPT ![c] =
               [call EXCEPT !.config = tempConfig, !.saving = tempConfig,
                            !.mutations = @ + 1,
                            !.pc = "open", !.resume = "profile"]]
    /\ UNCHANGED besideOnboarding

\* saveAccountsConfig: fs.writeFile opens accounts.json, which empties it
openAccountsFile(c) ==
    /\ calls[c].pc = "open"
    /\ mutate([disk EXCEPT !.accounts = TruncatedFile])
    /\ calls' = [calls EXCEPT ![c].pc = "write", ![c].mutations = @ + 1]
    /\ UNCHANGED besideOnboarding

\* mutant: the save in the middle of finish_account_auth keeps the entry
\* disabled
writeAccountsFile_keepDisabled(c) ==
    /\ calls[c].pc = "write"
    /\ LET call == [calls[c] EXCEPT !.mutations = @ + 1]
       IN  /\ mutate([disk EXCEPT !.accounts =
                        WrittenFile(IF call.resume = "profile"
                                    THEN call.before.accounts.config
                                    ELSE call.saving)])
           /\ calls' = [calls EXCEPT ![c] =
                  IF call.resume = "loaded" THEN afterLoad(call, emptyConfig)
                  ELSE [call EXCEPT !.pc = call.resume]]
    /\ UNCHANGED besideOnboarding

\* saveAccountsConfig: fs.writeFile writes the document; the handler goes on
writeAccountsFile(c) ==
    /\ calls[c].pc = "write"
    /\ LET call == [calls[c] EXCEPT !.mutations = @ + 1]
       IN  /\ mutate([disk EXCEPT !.accounts = WrittenFile(call.saving)])
           /\ calls' = [calls EXCEPT ![c] =
                  IF call.resume = "loaded" THEN afterLoad(call, emptyConfig)
                  ELSE [call EXCEPT !.pc = call.resume]]
    /\ UNCHANGED besideOnboarding

\* mutant: the completed account always becomes the default
finalConfig_alwaysDefault(call, profileEmail) ==
    [upsertAccount(call.config,
                   [accountOf(call) EXCEPT !.email = profileEmail, !.enabled = TRUE])
        EXCEPT !.defaultAccount = Str(call.account_id)]

\* the registry finish_account_auth saves last
finalConfig(call, profileEmail) ==
    LET updated == upsertAccount(call.config,
                       [accountOf(call) EXCEPT !.email = profileEmail,
                                               !.enabled = TRUE])
    IN  IF updated.defaultAccount.t # "string" \/ updated.defaultAccount.s = <<>>
        THEN [updated EXCEPT !.defaultAccount = Str(call.account_id)]
        ELSE updated

\* mutant: a failed profile fetch fails the call
getProfileEmail_gate(c) ==
    /\ calls[c].pc = "profile"
    /\ \E answer \in ProfileOutcomes :
          calls' = [calls EXCEPT ![c] =
              IF answer = "failed"
              THEN Failed([calls[c] EXCEPT !.profile = answer],
                          "ExternalCollaboratorError")
              ELSE [calls[c] EXCEPT
                       !.profile = answer,
                       !.saving = finalConfig(calls[c], answer),
                       !.pc = "open", !.resume = "done"]]
    /\ UNCHANGED <<disk, history>>
    /\ UNCHANGED besideOnboarding

\* getClientForAccount, then getProfileEmail inside its try/catch
getProfileEmail(c) ==
    /\ calls[c].pc = "profile"
    /\ LET call == calls[c]
           credentials == readCredentialsFile(disk.credentials[call.account_id])
       IN  IF ~credentials.ok
           THEN calls' = [calls EXCEPT ![c] = Failed(call, credentials.error)]
           ELSE IF ~createOAuthClientFromCredentials(credentials.doc)
           THEN calls' = [calls EXCEPT ![c] = Failed(call, "CredentialsInvalid")]
           ELSE IF disk.tokens[call.account_id] = NoTokenFile
           THEN calls' = [calls EXCEPT ![c] = Failed(call, "TokenMissing")]
           ELSE \E answer \in ProfileOutcomes :
                   calls' = [calls EXCEPT ![c] =
                       [call EXCEPT
                           !.profile = answer,
                           !.saving = finalConfig(call,
                                         IF answer = "failed"
                                         THEN accountOf(call).email
                                         ELSE answer),
                           !.pc = "open", !.resume = "done"]]
    /\ UNCHANGED <<disk, history>>
    /\ UNCHANGED besideOnboarding

OnboardNext ==
    \E c \in 1..MaxCalls :
        \/ handleBeginAccountAuth(c)
        \/ parseCredentials(c)
        \/ writeCredentialsFile(c)
        \/ loadConfig(c)
        \/ handleFinishAccountAuth(c)
        \/ handleListAccounts(c)
        \/ exchangeCodeForToken(c)
        \/ writeTokenFile(c)
        \/ openAccountsFile(c)
        \/ writeAccountsFile(c)
        \/ getProfileEmail(c)

\* config roots the calls may find: nothing; an empty registry; account a
\* pending; account a active and default; a active and b pending
Disk(content, credentials, tokens) ==
    [accounts |-> content,
     credentials |-> [id \in OnboardIds |->
                         IF id \in credentials THEN ClientDoc("c0") ELSE NoFile],
     tokens |-> [id \in OnboardIds |->
                    IF id \in tokens THEN Tokens(TRUE, TRUE) ELSE NoTokenFile]]

\* accounts.json after an edit from outside: the default names an account
\* that is not there, is not a string, or names an entry without an id
EditedDisks ==
    {Disk(WrittenFile([defaultAccount |-> d,
                       accounts |-> <<Entry(<<"a">>, "e0", TRUE)>>]),
          {<<"a">>}, {<<"a">>}) : d \in {Str(<<"b">>), Num(7)}}
    \cup {Disk(WrittenFile([defaultAccount |-> Str(<<>>),
                            accounts |-> <<Entry(<<>>, "e0", TRUE),
                                           Entry(<<"a">>, "e0", FALSE)>>]),
               {<<"a">>}, {})}

InitialDisks ==
    {NoDisk,
     Disk(WrittenFile(emptyConfig), {}, {}),
     Disk(WrittenFile([defaultAccount |-> Null,
                       accounts |-> <<Entry(<<"a">>, "e0", FALSE)>>]),
          {<<"a">>}, {}),
     Disk(WrittenFile([defaultAccount |-> Str(<<"a">>),
                       accounts |-> <<Entry(<<"a">>, "e0", TRUE)>>]),
          {<<"a">>}, {<<"a">>}),
     Disk(WrittenFile([defaultAccount |-> Str(<<"a">>),
                       accounts |-> <<Entry(<<"a">>, "e0", TRUE),
                                      Entry(<<"b">>, "e0", FALSE)>>]),
          {<<"a">>, <<"b">>}, {<<"a">>})}
    \cup EditedDisks

\* no mail tool call is in progress
ReadIdle ==
    /\ registry = Registry(<<>>)
    /\ world = QuietWorld
    /\ request = Request("read_emails", Undefined, Undefined, Undefined)
    /\ pc = "ready"
    /\ config = Registry(<<>>)
    /\ targetAccounts = <<>>
    /\ maxResults = 0
    /\ accountResults = <<>>
    /\ merged = <<>>
    /\ response = NoResponse
    /\ invoked = [id \in AllIds |-> 0]

OnboardInit ==
    /\ ReadIdle
    /\ RefreshIdle
    /\ UpsertIdle
    /\ ArgsIdle
    /\ disk \in InitialDisks
    /\ calls = [c \in 1..MaxCalls |-> IdleCall]
    /\ history = NoHistory(disk)

OnboardSpec == OnboardInit /\ [][OnboardNext]_onboardVars

\* ================================================================== claims
\* what the claims say of the inputs, stated apart from the code's operators

\* an argument that is missing, not a string, empty or whitespace-only
IsBlank(value) ==
    value.t # "string" \/ \A i \in 1..Len(value.s) : value.s[i] \in WhitespaceChars

\* a string over [A-Za-z0-9_-], at least one character long
MatchesIdPattern(s) == s # <<>> /\ \A i \in 1..Len(s) : s[i] \in PatternChars

HasAccount(cfg, id) == \E i \in 1..Len(cfg.accounts) : cfg.accounts[i].id = id
AccountOf(cfg, id) ==
    cfg.accounts[CHOOSE i \in 1..Len(cfg.accounts) : cfg.accounts[i].id = id]
EnabledIndexes(cfg) == {i \in 1..Len(cfg.accounts) : cfg.accounts[i].enabled}

NothingStarted == targetAccounts = <<>> /\ \A id \in AllIds : invoked[id] = 0
FailedWith(error) ==
    pc = "done" /\ response.kind = "error" /\ response.error = error /\ NothingStarted

\* a read_emails / search_emails call that got past argument validation
ReadCall ==
    /\ request.tool \in ReadTools
    /\ pc # "ready"
    /\ request.tool = "search_emails" => ~IsBlank(request.query)
WriteCall == request.tool \in WriteTools /\ pc # "ready"
ListDone == pc = "done" /\ response.kind = "list"

\* C1: a write/admin tool whose account argument is missing, empty or
\* whitespace-only fails with AccountRequired for every registry (also one
\* with a default account or a single enabled account): nothing is targeted
\* and no operation starts; a write tool never targets more than one account,
\* and only the account its argument names.
C1_WriteRequiresExplicitAccount ==
    WriteCall =>
        /\ IsBlank(request.account) => FailedWith("AccountRequired")
        /\ Len(targetAccounts) <= 1
        /\ targetAccounts # <<>> =>
              /\ request.account.t = "string"
              /\ targetAccounts[1].id = request.account.s

C1_Witness ==
    /\ request.tool = "send_email"
    /\ request.account = Str(<<" ">>)
    /\ registry.defaultAccount.t = "string"
    /\ Cardinality(EnabledIndexes(registry)) = 1
    /\ FailedWith("AccountRequired")

\* C2: an account that is disabled in the registry a tool call loaded is
\* never among the accounts the call targets, and no per-account operation
\* is started for it, whether the call is a read, a search or a write.
C2_DisabledNeverSelected ==
    \A i \in 1..Len(config.accounts) :
        ~config.accounts[i].enabled =>
            /\ \A k \in 1..Len(targetAccounts) :
                  /\ targetAccounts[k] # config.accounts[i]
                  /\ targetAccounts[k].id # config.accounts[i].id
            /\ invoked[config.accounts[i].id] = 0

C2_Witness ==
    /\ ListDone
    /\ IsBlank(request.account)
    /\ Len(targetAccounts) = 1
    /\ \E i \in 1..Len(config.accounts) : ~config.accounts[i].enabled

\* C3: a read without an account argument targets exactly the enabled
\* accounts of the registry, each once and in registry order, and fails with
\* NoEnabledAccounts exactly when no account is enabled.
C3_AggregateReadTargetsEnabled ==
    (ReadCall /\ IsBlank(request.account)) =>
        /\ (response.error = "NoEnabledAccounts") <=> (EnabledIndexes(config) = {})
        /\ EnabledIndexes(config) = {} => FailedWith("NoEnabledAccounts")
        /\ Len(targetAccounts) = Cardinality(EnabledIndexes(config))
        /\ \A i \in EnabledIndexes(config) :
              \E k \in 1..Len(targetAccounts) : targetAccounts[k] = config.accounts[i]
        /\ \A k1, k2 \in 1..Len(targetAccounts) :
              \A i1, i2 \in 1..Len(config.accounts) :
                  (/\ k1 < k2
                   /\ config.accounts[i1] = targetAccounts[k1]
                   /\ config.accounts[i2] = targetAccounts[k2]) => i1 < i2

C3_Witness ==
    /\ ReadCall
    /\ request.account = Str(<<" ">>)
    /\ pc = "gather"
    /\ Len(targetAccounts) = 2
    /\ targetAccounts[1].id = <<"b">>
    /\ targetAccounts[2].id = <<"a">>

\* C4, as claimed: a write tool given any id that no account of the registry
\* has fails with UnknownAccount, blank ids and ids with characters outside
\* the pattern included.
C4_Original ==
    (/\ WriteCall
     /\ pc = "done"
     /\ request.account.t = "string"
     /\ ~HasAccount(config, request.account.s))
        => response.error = "UnknownAccount"

\* C4, amended: a write tool given an id that no account of the registry has
\* fails before anything starts: with AccountRequired when the id is blank,
\* with InvalidAccountId when it is not blank and has a character outside
\* [A-Za-z0-9_-], and with UnknownAccount otherwise.
C4_UnknownWriteAccount ==
    (/\ WriteCall
     /\ request.account.t = "string"
     /\ ~HasAccount(config, request.account.s))
        => IF IsBlank(request.account) THEN FailedWith("AccountRequired")
           ELSE IF ~MatchesIdPattern(request.account.s)
                THEN FailedWith("InvalidAccountId")
                ELSE FailedWith("UnknownAccount")

C4_Witness ==
    /\ WriteCall
    /\ request.account = Str(<<"b", "a">>)
    /\ Len(config.accounts) = 2
    /\ FailedWith("UnknownAccount")

\* the account id a read handler passes on: its argument, trimmed
ReadAccountId == trim(request.account.s)

\* C5, as claimed: a read given a non-blank account id fails with
\* UnknownAccount when no account has the id, with AccountDisabled when the
\* account is disabled, and otherwise targets that one account.
C5_Original ==
    (ReadCall /\ ~IsBlank(request.account)) =>
        IF ~HasAccount(config, ReadAccountId) THEN FailedWith("UnknownAccount")
        ELSE IF ~AccountOf(config, ReadAccountId).enabled
             THEN FailedWith("AccountDisabled")
             ELSE targetAccounts = <<AccountOf(config, ReadAccountId)>>

\* C5, amended: a read given a non-blank account id fails with
\* InvalidAccountId when the id has a character outside [A-Za-z0-9_-];
\* otherwise with UnknownAccount when no account has the id, with
\* AccountDisabled when the account is disabled, and otherwise it targets
\* exactly that one account and starts one operation, for it alone.
C5_SingleReadAccount ==
    (ReadCall /\ ~IsBlank(request.account)) =>
        IF ~MatchesIdPattern(ReadAccountId) THEN FailedWith("InvalidAccountId")
        ELSE IF ~HasAccount(config, ReadAccountId) THEN FailedWith("UnknownAccount")
        ELSE IF ~AccountOf(config, ReadAccountId).enabled
             THEN FailedWith("AccountDisabled")
             ELSE /\ targetAccounts = <<AccountOf(config, ReadAccountId)>>
                  /\ \A id \in AllIds :
                        invoked[id] = IF id = ReadAccountId THEN 1 ELSE 0

C5_Witness ==
    /\ ReadCall
    /\ request.account = Str(<<" ", "a">>)
    /\ Cardinality(EnabledIndexes(config)) = 2
    /\ pc = "gather"
    /\ Len(targetAccounts) = 1
    /\ targetAccounts[1].id = <<"a">>

\* the outcome the outside world fixes for an account's operation
OperationFails(w) == ~w.creds \/ ~w.token \/ w.api = "fail"
WorldOfTarget(k) == world[targetAccounts[k].id]
Targets == 1..Len(targetAccounts)

StartsWith(s, prefix) ==
    Len(s) >= Len(prefix) /\ SubSeq(s, 1, Len(prefix)) = prefix
DiagnosticsOf(account) ==
    {j \in 1..Len(response.errors) :
        StartsWith(response.errors[j], account.id \o <<":", " ">>)}

ResolutionErrors ==
    {"ValidationError", "InvalidAccountId", "UnknownAccount", "AccountDisabled",
     "NoEnabledAccounts"}

\* C6: once a read or search has resolved its accounts it ends with a list,
\* whatever subset of the per-account operations fails (all of them too): an
\* account whose operation fails, client creation included, gives exactly
\* one diagnostic "<accountId>: <message>" and no item; an account whose
\* operation succeeds gives no diagnostic and every item it fetched is in
\* the merged total; the call fails only for a resolution or validation
\* error, before any operation has started.
C6_FailuresContained ==
    /\ (request.tool \in ReadTools /\ pc = "done" /\ targetAccounts # <<>>)
          => response.kind = "list"
    /\ (request.tool \in ReadTools /\ pc = "done" /\ response.kind = "error")
          => (response.error \in ResolutionErrors /\ NothingStarted)
    /\ ListDone =>
          /\ Len(response.errors)
                = Cardinality({k \in Targets : OperationFails(WorldOfTarget(k))})
          /\ \A k \in Targets :
                IF OperationFails(WorldOfTarget(k))
                THEN /\ Cardinality(DiagnosticsOf(targetAccounts[k])) = 1
                     /\ \E j \in 1..Len(response.errors) :
                           response.errors[j]
                              = targetAccounts[k].id \o <<":", " ">>
                                   \o operationError(WorldOfTarget(k))
                     /\ \A m \in 1..Len(merged) :
                           merged[m].accountId # targetAccounts[k].id
                ELSE /\ DiagnosticsOf(targetAccounts[k]) = {}
                     /\ \A e \in 1..Len(accountResults[k].emails) :
                           \E m \in 1..Len(merged) :
                               merged[m] = accountResults[k].emails[e]
                     /\ \A j \in 1..Min2(maxResults, Len(WorldOfTarget(k).msgs)) :
                           \E m \in 1..Len(merged) :
                               /\ merged[m].accountId = targetAccounts[k].id
                               /\ merged[m].id = WorldOfTarget(k).msgs[j].id

C6_Witness ==
    /\ ListDone
    /\ Len(targetAccounts) = 2
    /\ ~WorldOfTarget(1).creds
    /\ WorldOfTarget(2).api = "fail"
    /\ Len(response.errors) = 2
    /\ response.totalFound = 0

\* the sort key of a merged item, from the timestamp the provider holds for it
RawKey(email) ==
    LET raw == world[email.accountId].msgs[email.id].internalDate
    IN  IF raw.t = "number" THEN raw.n ELSE 0

FetchedPairs(email) ==
    {p \in Targets \X (1..(MaxItems + BigLen)) :
        /\ p[2] <= Len(accountResults[p[1]].emails)
        /\ accountResults[p[1]].emails[p[2]] = email}

\* C7: the merged sequence is a permutation of the concatenation of the
\* successful accounts' items, in non-increasing order of internalDate, an
\* item whose provider timestamp is missing or not a finite number counting
\* as 0; totalFound is its length.
C7_MergedSortedPermutation ==
    ListDone =>
        /\ \A m \in 1..Len(merged) : FetchedPairs(merged[m]) # {}
        /\ \A k \in Targets :
              \A j \in 1..Len(accountResults[k].emails) :
                  Cardinality({m \in 1..Len(merged) :
                                  merged[m] = accountResults[k].emails[j]})
                     = Cardinality(FetchedPairs(accountResults[k].emails[j]))
        /\ \A m \in 1..(Len(merged) - 1) : RawKey(merged[m]) >= RawKey(merged[m + 1])
        /\ response.totalFound = Len(merged)

\* A:[100, 50], B:[200], C fails with "boom", limit 10
C7_Witness ==
    /\ ListDone
    /\ [m \in 1..Len(merged) |-> merged[m].internalDate.n] = <<200, 100, 50>>
    /\ [m \in 1..Len(merged) |-> merged[m].accountId] = <<<<"b">>, <<"a">>, <<"a">>>>
    /\ response.errors = <<<<"c", ":", " ", "boom">>>>
    /\ response.totalFound = 3
    /\ Len(response.returned) = 3

RECURSIVE SumSeq(_)
SumSeq(numbers) ==
    IF numbers = <<>> THEN 0 ELSE Head(numbers) + SumSeq(Tail(numbers))

\* the messages the successful accounts hold
HeldBySuccessful ==
    SumSeq([k \in Targets |->
              IF OperationFails(WorldOfTarget(k)) THEN 0
              ELSE Len(WorldOfTarget(k).msgs)])

\* the messages the successful accounts' fetches return, each capped at the limit
FetchedFromSuccessful ==
    SumSeq([k \in Targets |->
              IF OperationFails(WorldOfTarget(k)) THEN 0
              ELSE Min2(maxResults, Len(WorldOfTarget(k).msgs))])

\* C8, as claimed: the returned sequence is the first min(limit, totalFound)
\* items of the sorted merge, and totalFound counts every item the
\* successful accounts hold.
C8_Original ==
    ListDone =>
        /\ response.returned
              = SubSeq(merged, 1, Min2(maxResults, response.totalFound))
        /\ response.totalFound = HeldBySuccessful

\* C8, amended: the returned sequence is the first min(limit, totalFound)
\* items of the sorted merge, and totalFound counts the items the successful
\* accounts' fetches returned, each fetch being capped at the limit: the sum
\* over the successful accounts of min(limit, items held).
C8_GlobalTruncation ==
    ListDone =>
        /\ response.returned
              = SubSeq(merged, 1, Min2(maxResults, response.totalFound))
        /\ response.totalFound = Len(merged)
        /\ response.totalFound = FetchedFromSuccessful

\* A holds [90, 80, 70], B holds [60], limit 2: returned [90, 80], 3 found
C8_Witness ==
    /\ ListDone
    /\ maxResults = 2
    /\ Len(world[<<"a">>].msgs) = 3
    /\ Len(world[<<"b">>].msgs) = 1
    /\ [m \in 1..Len(response.returned) |-> response.returned[m].internalDate.n]
          = <<90, 80>>
    /\ \A m \in 1..Len(response.returned) : response.returned[m].accountId = <<"a">>
    /\ response.totalFound = 3

\* the limit the claim gives for the call's max_results
ExpectedLimit ==
    IF request.max_results.t # "number"
    THEN (IF request.tool = "read_emails" THEN 20 ELSE 25)
    ELSE IF request.max_results.n >= 100 THEN 100
    ELSE IF request.max_results.n <= 1 THEN 1
    ELSE request.max_results.n

\* C9: the limit of a read or search is between 1 and 100 whatever
\* max_results is: 1000 gives 100, 0 or a negative number gives 1, a missing,
\* non-numeric or non-finite value gives the tool's default (20, 25); no
\* account's fetch returns more items than the limit, and no more than 100
\* items are returned.
C9_LimitClamped ==
    (ReadCall /\ targetAccounts # <<>>) =>
        /\ maxResults = ExpectedLimit
        /\ maxResults >= 1
        /\ maxResults <= 100
        /\ \A k \in 1..Len(accountResults) :
              Len(accountResults[k].emails) <= maxResults
        /\ Len(response.returned) <= maxResults
        /\ Len(response.returned) <= 100

C9_Witness ==
    /\ ListDone
    /\ request.max_results = Num(1000)
    /\ maxResults = 100
    /\ response.totalFound = 200
    /\ Len(response.returned) = 100

\* every resolved account's operation has returned
AllReturned == \A k \in Targets : accountResults[k].status = "done"

C10_Safety ==
    /\ ListDone =>
          /\ Len(accountResults) = Len(targetAccounts)
          /\ AllReturned
    /\ (request.tool \in ReadTools /\ pc \in {"gather", "done"}) =>
          \A id \in AllIds :
              invoked[id] = IF \E k \in Targets : targetAccounts[k].id = id
                            THEN 1 ELSE 0
    /\ pc = "gather" => response = NoResponse
    /\ (request.tool \in ReadTools /\ pc \in {"gather", "done"}) =>
          \A k \in Targets :
              operationHangs(WorldOfTarget(k)) =>
                  /\ accountResults[k].status = "running"
                  /\ ~ListDone

\* C10: the aggregate of a read or search is produced only when every
\* resolved account's operation has returned, each resolved account's
\* operation having been started exactly once and no other account's; an
\* operation that never returns is never given up on, so the aggregate is
\* then never produced; and once every operation has returned, the
\* aggregate is produced, which happens when no operation hangs.
C10_AggregateAwaitsAll ==
    /\ []C10_Safety
    /\ (pc = "gather" /\ AllReturned) ~> ListDone
    /\ (pc = "gather" /\ \A k \in Targets : ~operationHangs(WorldOfTarget(k)))
          ~> ListDone

C10_Witness ==
    /\ pc = "gather"
    /\ Len(targetAccounts) = 2
    /\ operationHangs(WorldOfTarget(1))
    /\ accountResults[1].status = "running"
    /\ accountResults[2].status = "done"
    /\ accountResults[2].emails # <<>>

\* target k's operation is started and the outside answers it
InFlightAnswered(k) ==
    IF pc = "gather" /\ k \in Targets
    THEN ~operationHangs(WorldOfTarget(k))
    ELSE FALSE

Returned(k) ==
    IF k \in 1..Len(accountResults) THEN accountResults[k].status = "done" ELSE FALSE

\* C11: when the handler of a read or search first waits, the operation of
\* every resolved account has been started, once, and none has returned yet,
\* so all of them are in flight together; and an operation that the outside
\* answers returns whatever the others do, also while another one never
\* returns.
C11_AllStartedBeforeWaiting ==
    /\ [](/\ (request.tool \in ReadTools /\ pc = "gather") =>
                /\ Len(accountResults) = Len(targetAccounts)
                /\ \A k \in Targets :
                      /\ invoked[targetAccounts[k].id] = 1
                      /\ accountResults[k].status \in {"running", "done"})
    /\ [][(pc = "ready" /\ pc' = "gather") =>
             \A k \in 1..Len(accountResults') :
                 accountResults'[k].status = "running"]_vars
    /\ \A k \in 1..Cardinality(AllIds) : InFlightAnswered(k) ~> Returned(k)

C11_Witness ==
    /\ pc = "gather"
    /\ Len(targetAccounts) = 3
    /\ \A k \in Targets :
          /\ accountResults[k].status = "running"
          /\ invoked[targetAccounts[k].id] = 1

\* ------------------------------------------------------- onboarding claims
CallIds == 1..MaxCalls

\* call c returns in this step, and returns without an error
Completes(c) == calls[c].pc # "done" /\ calls'[c].pc = "done"
Succeeds(c) == Completes(c) /\ calls'[c].error = "none"

\* the registry file holds an entry for the id, disabled or enabled
PersistedAs(files, id, enabled) ==
    /\ files.accounts.state = "written"
    /\ HasAccount(files.accounts.config, id)
    /\ AccountOf(files.accounts.config, id).enabled = enabled

\* a finish call for the id has got a token payload from the exchange
Exchanged(id) ==
    \E c \in CallIds :
        /\ calls[c].kind = "finish"
        /\ calls[c].account_id = id
        /\ calls[c].tokens.t = "tokens"
        /\ calls[c].tokens.access \/ calls[c].tokens.refresh

\* C12: when begin_account_auth(id) returns without error the registry file
\* holds the entry of id with enabled=false; when finish_account_auth(id) has
\* got an access or a refresh token, each registry save it completes and its
\* successful return leave the entry of id with enabled=true; and from a
\* registry without accounts, an entry is enabled in the registry file only
\* if a finish_account_auth for its id got a token payload from the exchange.
C12_TwoStepOnboarding ==
    /\ [][\A c \in CallIds :
             (Succeeds(c) /\ calls'[c].kind = "begin")
                => PersistedAs(disk', calls'[c].account_id, FALSE)]_onboardVars
    /\ [][\A c \in CallIds :
             (/\ calls[c].kind = "finish"
              /\ calls[c].tokens.t = "tokens"
              /\ calls[c].pc = "write"
              /\ calls'[c].pc # "write")
                => PersistedAs(disk', calls[c].account_id, TRUE)]_onboardVars
    /\ [][\A c \in CallIds :
             (Succeeds(c) /\ calls'[c].kind = "finish")
                => (/\ PersistedAs(disk', calls'[c].account_id, TRUE)
                    /\ calls'[c].tokens.access \/ calls'[c].tokens.refresh)]_onboardVars
    /\ [](history.initial.accounts.config.accounts = <<>> =>
             \A id \in OnboardIds : PersistedAs(disk, id, TRUE) => Exchanged(id))

\* begin then finish for account a, from nothing, the exchange giving an
\* access token only
C12_Witness ==
    /\ history.initial = NoDisk
    /\ calls[1].kind = "begin" /\ calls[1].pc = "done" /\ calls[1].error = "none"
    /\ calls[2].kind = "finish" /\ calls[2].pc = "done" /\ calls[2].error = "none"
    /\ calls[1].account_id = <<"a">> /\ calls[2].account_id = <<"a">>
    /\ PersistedAs(calls[2].before, <<"a">>, FALSE)
    /\ calls[2].tokens = Tokens(TRUE, FALSE)
    /\ PersistedAs(disk, <<"a">>, TRUE)

\* a finish call for the id has asked the provider for the profile
Verified(id) ==
    \E c \in CallIds :
        /\ calls[c].kind = "finish"
        /\ calls[c].account_id = id
        /\ calls[c].profile # "none"

\* C13, as claimed: an entry that onboarding has enabled in the registry file
\* is enabled there only once profile verification has been performed.
C13_Original ==
    \A id \in OnboardIds :
        (PersistedAs(disk, id, TRUE) /\ ~PersistedAs(history.initial, id, TRUE))
            => Verified(id)

\* C13, amended: an entry that onboarding has enabled in the registry file
\* is enabled there only once a finish_account_auth for its id has got a
\* token payload and the token file is written; the first save of
\* finish_account_auth persists enabled=true before the profile has been
\* asked for.
C13_EnabledAfterExchange ==
    /\ [](\A id \in OnboardIds :
             (PersistedAs(disk, id, TRUE) /\ ~PersistedAs(history.initial, id, TRUE))
                => (Exchanged(id) /\ disk.tokens[id].t = "tokens"))
    /\ [][\A c \in CallIds :
             (/\ calls[c].kind = "finish"
              /\ calls[c].pc = "write"
              /\ calls[c].resume = "profile"
              /\ calls'[c].pc # "write")
                => (/\ PersistedAs(disk', calls[c].account_id, TRUE)
                    /\ calls'[c].pc = "profile"
                    /\ calls'[c].profile = "none")]_onboardVars

\* account a is enabled on disk and its finish call has yet to fetch the profile
C13_Witness ==
    /\ calls[1].kind = "finish"
    /\ calls[1].account_id = <<"a">>
    /\ calls[1].pc = "profile"
    /\ calls[1].profile = "none"
    /\ calls[2].pc = "ready"
    /\ ~PersistedAs(history.initial, <<"a">>, TRUE)
    /\ PersistedAs(disk, <<"a">>, TRUE)
    /\ ~Verified(<<"a">>)

\* nothing but call c has written to the config root since c arrived
Undisturbed(c) == history.clock = calls[c].startedAt + calls[c].mutations

\* C14: a finish_account_auth whose exchange returns a payload with neither
\* an access token nor a refresh token fails with TokenExchangeIncomplete, and
\* only such a call does; the call has written nothing, neither the token
\* file nor the registry file, so that with no other call writing the config
\* root is what it was when the call arrived, the entry still disabled.
C14_EmptyPayloadRejected ==
    /\ [](\A c \in CallIds :
             /\ (calls[c].kind = "finish" /\ calls[c].tokens = Tokens(FALSE, FALSE))
                   => (/\ calls[c].pc = "done"
                       /\ calls[c].error = "TokenExchangeIncomplete"
                       /\ calls[c].mutations = 0
                       /\ Undisturbed(c) => disk = calls[c].before)
             /\ calls[c].error = "TokenExchangeIncomplete"
                   => calls[c].tokens = Tokens(FALSE, FALSE))
    /\ [][\A c \in CallIds :
             (calls[c].pc = "exchange" /\ calls'[c].tokens = Tokens(FALSE, FALSE))
                => disk' = disk]_onboardVars

C14_Witness ==
    /\ history.initial = NoDisk
    /\ calls[1].kind = "begin" /\ calls[1].error = "none" /\ calls[1].pc = "done"
    /\ calls[2].kind = "finish" /\ calls[2].account_id = <<"a">>
    /\ calls[2].error = "TokenExchangeIncomplete"
    /\ PersistedAs(calls[2].before, <<"a">>, FALSE)
    /\ PersistedAs(disk, <<"a">>, FALSE)
    /\ disk.tokens[<<"a">>] = NoTokenFile

\* the email the registry file holds for the id
PersistedEmail(files, id) == AccountOf(files.accounts.config, id).email

\* C15: a finish_account_auth whose profile fetch fails does not fail for it:
\* it goes on to its last save and returns without error, the entry enabled
\* with the email it had in the registry the call loaded (the email on disk
\* when the call arrived, if no other call wrote meanwhile); when the profile
\* fetch answers, the entry is saved with the profile address.
C15_ProfileBestEffort ==
    /\ [](\A c \in CallIds :
             calls[c].profile # "none" =>
                 /\ calls[c].error = "none"
                 /\ calls[c].pc \in {"open", "write", "done"}
                 /\ calls[c].resume = "done")
    /\ [][\A c \in CallIds :
             (Succeeds(c) /\ calls'[c].kind = "finish") =>
                 /\ PersistedAs(disk', calls'[c].account_id, TRUE)
                 /\ calls'[c].profile # "none"
                 /\ PersistedEmail(disk', calls'[c].account_id)
                       = IF calls'[c].profile = "failed"
                         THEN accountOf(calls'[c]).email
                         ELSE calls'[c].profile
                 /\ (/\ calls'[c].profile = "failed"
                     /\ history'.clock = calls'[c].startedAt + calls'[c].mutations)
                       => PersistedEmail(disk', calls'[c].account_id)
                             = PersistedEmail(calls'[c].before, calls'[c].account_id)]_onboardVars

\* finish for the pending account a, alone, with the profile fetch failing
C15_Witness ==
    /\ calls[1].kind = "finish" /\ calls[1].pc = "done" /\ calls[1].error = "none"
    /\ calls[1].account_id = <<"a">>
    /\ calls[1].profile = "failed"
    /\ calls[2].pc = "ready"
    /\ PersistedAs(calls[1].before, <<"a">>, FALSE)
    /\ PersistedAs(disk, <<"a">>, TRUE)
    /\ PersistedEmail(disk, <<"a">>) = "e0"

\* the default account a call would load from these files
DefaultOn(files) ==
    IF files.accounts.state = "written"
    THEN loadAccountsConfig(files.accounts.config).defaultAccount
    ELSE Null

SameBegin(c1, c2) ==
    /\ c1 # c2
    /\ calls[c1].kind = "begin" /\ calls[c2].kind = "begin"
    /\ calls[c1].account_id = calls[c2].account_id
    /\ calls[c1].email = calls[c2].email
    /\ calls[c1].credentials_json = calls[c2].credentials_json

\* c2 arrived when c1 had returned without error, only c1 having written
\* since c1 arrived
RanJustBefore(c1, c2) ==
    /\ calls[c1].pc = "done" /\ calls[c1].error = "none"
    /\ calls[c2].startedAt = calls[c1].startedAt + calls[c1].mutations

ParseFailure(c) ==
    /\ calls[c].kind = "begin" /\ calls[c].pc = "done"
    /\ calls[c].error \in {"CredentialsUnparsable", "CredentialsUnreadable"}
InvalidCredentialsFailure(c) ==
    /\ calls[c].kind = "begin" /\ calls[c].pc = "done"
    /\ calls[c].error = "CredentialsInvalid"
ExchangeFailure(c) ==
    /\ calls[c].kind = "finish" /\ calls[c].pc = "done"
    /\ calls[c].error \in {"ExternalCollaboratorError", "TokenExchangeIncomplete"}
    /\ calls[c].tokens \in {Rejected, Tokens(FALSE, FALSE)}

\* C18: when a begin fails on credentials that cannot be parsed or are
\* invalid, or a finish fails in the token exchange, and no other call has
\* written meanwhile, the registry file, the credentials files and the token
\* files are what they were when the failing call arrived.
C18_FailureLeavesStateUntouched ==
    \A c \in CallIds :
       (/\ ParseFailure(c) \/ InvalidCredentialsFailure(c) \/ ExchangeFailure(c)
        /\ Undisturbed(c))
          => disk = calls[c].before

\* what the code does keep: a parse failure and a failed exchange write
\* nothing, and a begin with invalid credentials leaves the registry file and
\* the token files alone, having replaced the account's credentials file
C18_Kept ==
    \A c \in CallIds :
       /\ (ParseFailure(c) \/ ExchangeFailure(c)) => calls[c].mutations = 0
       /\ ((ParseFailure(c) \/ ExchangeFailure(c)) /\ Undisturbed(c))
             => disk = calls[c].before
       /\ (InvalidCredentialsFailure(c) /\ Undisturbed(c))
             => /\ disk.accounts = calls[c].before.accounts
                /\ disk.tokens = calls[c].before.tokens
                /\ calls[c].mutations = 1

\* begin for the enabled account a with the document {} has failed, and a's
\* working credentials file now holds {}
C18_CredentialsOverwritten ==
    \E c \in CallIds :
       /\ InvalidCredentialsFailure(c) /\ Undisturbed(c)
       /\ calls[c].account_id = <<"a">>
       /\ PersistedAs(calls[c].before, <<"a">>, TRUE)
       /\ calls[c].before.credentials[<<"a">>] = ClientDoc("c0")
       /\ disk.credentials[<<"a">>] = BareDoc
       /\ disk.accounts = calls[c].before.accounts

\* every call that has arrived has returned
AllCompleted == \A c \in CallIds : calls[c].pc \in {"ready", "done"}

\* C19: once all calls have completed, every account id that was ever
\* written to the registry file is still in it.
C19_NeverRemoves ==
    AllCompleted => history.written \subseteq IdsOf(disk.accounts.config)

\* what the code does keep: a save that no other call's write came before,
\* since its call arrived, holds every account the registry held then
C19_Kept ==
    [][\A c \in CallIds :
          (/\ calls[c].pc = "write"
           /\ calls'[c].pc # "write"
           /\ calls[c].before.accounts.state = "written"
           /\ history'.clock = calls'[c].startedAt + calls'[c].mutations)
             => /\ disk'.accounts.state = "written"
                /\ IdsOf(calls[c].before.accounts.config) \ {<<>>}
                      \subseteq IdsOf(disk'.accounts.config)]_onboardVars

\* begin for a and begin for b overlapped on an empty registry; both returned
\* without error, b was written to the registry, and the registry holds only a
C19_LostUpdate ==
    /\ history.initial.accounts = WrittenFile(emptyConfig)
    /\ \A c \in CallIds : /\ calls[c].kind = "begin"
                          /\ calls[c].pc = "done"
                          /\ calls[c].error = "none"
    /\ calls[1].account_id = <<"a">>
    /\ calls[2].account_id = <<"b">>
    /\ history.written = {<<"a">>, <<"b">>}
    /\ disk.accounts.state = "written"
    /\ IdsOf(disk.accounts.config) = {<<"a">>}

\* call c is between the open and the write of a saveAccountsConfig
Saving(c) == calls[c].pc = "write"

\* C20: a loadAccountsConfig that runs while another call saves the registry
\* sees the complete previous or the complete new registry, and so no call
\* fails with ConfigCorrupt.
C20_SaveAtomic ==
    \A c \in CallIds : calls[c].error # "ConfigCorrupt"

\* what the code does keep: the registry file is empty only while some call
\* is inside a save, and a load fails with ConfigCorrupt only when it reads
\* the file at such a moment, another call being inside its save
C20_Kept ==
    /\ [](disk.accounts.state = "truncated" => \E c \in CallIds : Saving(c))
    /\ [][\A c \in CallIds :
             (calls[c].error # "ConfigCorrupt" /\ calls'[c].error = "ConfigCorrupt")
                => /\ calls[c].pc = "load"
                   /\ disk.accounts.state = "truncated"
                   /\ \E other \in CallIds \ {c} : Saving(other)]_onboardVars

\* list_accounts has failed with ConfigCorrupt on a registry that held the
\* enabled account a, while a begin for b was saving
C20_HalfWrittenRead ==
    /\ PersistedAs(history.initial, <<"a">>, TRUE)
    /\ calls[1].kind = "begin" /\ calls[1].account_id = <<"b">>
    /\ Saving(1)
    /\ disk.accounts.state = "truncated"
    /\ calls[2].kind = "load"
    /\ calls[2].pc = "done"
    /\ calls[2].error = "ConfigCorrupt"

\* ============================================================ token refresh
\* One account, already onboarded. Every tool call builds its own client
\* (getClientForAccount -> GmailAccountClient.create), which reads token.json
\* once and registers a 'tokens' listener; the listener overlays what the
\* provider issued on the client's cached tokens and starts fs.writeFile
\* without awaiting it.
MaxClients == 2
MaxRefreshes == 2
ClientIds == 1..MaxClients

\* { ...cachedTokens, ...incomingTokens }: the provider always issues an
\* access token and sometimes a refresh token with it
overlay(cachedTokens, incomingTokens) ==
    Credentials(incomingTokens.access,
                IF incomingTokens.hasRefresh THEN incomingTokens.access
                ELSE cachedTokens.refresh)

\* GmailAccountClient.create: read token.json, or fail
create(c) ==
    /\ alive
    /\ clients[c].pc = "ready"
    /\ clients' = [clients EXCEPT ![c] =
          IF tokenArtifact.state = "written"
          THEN [@ EXCEPT !.pc = "request", !.cachedTokens = tokenArtifact.tokens]
          ELSE [@ EXCEPT !.pc = "done", !.error = "TokenMissing"]]
    /\ UNCHANGED <<tokenArtifact, issued, alive>>
    /\ UNCHANGED besideRefresh

\* the 'tokens' listener, during the client's mail-API request
onTokens(c) ==
    /\ alive
    /\ clients[c].pc = "request"
    /\ issued < MaxRefreshes
    /\ \E hasRefresh \in BOOLEAN :
          LET incomingTokens == [access |-> issued + 1, hasRefresh |-> hasRefresh]
              merged_ == overlay(clients[c].cachedTokens, incomingTokens)
          IN  clients' = [clients EXCEPT
                 ![c].cachedTokens = merged_,
                 ![c].writes = Append(@, [state |-> "queued", tokens |-> merged_])]
    /\ issued' = issued + 1
    /\ UNCHANGED <<tokenArtifact, alive>>
    /\ UNCHANGED besideRefresh

\* fs.writeFile of the listener opens token.json, which empties it
openTokenPath(c) ==
    /\ alive
    /\ \E w \in 1..Len(clients[c].writes) :
          /\ clients[c].writes[w].state = "queued"
          /\ clients' = [clients EXCEPT ![c].writes[w].state = "opened"]
    /\ tokenArtifact' = TokenTruncated
    /\ UNCHANGED <<issued, alive>>
    /\ UNCHANGED besideRefresh

\* fs.writeFile of the listener writes the document
writeTokenPath(c) ==
    /\ alive
    /\ \E w \in 1..Len(clients[c].writes) :
          /\ clients[c].writes[w].state = "opened"
          /\ clients' = [clients EXCEPT ![c].writes[w].state = "done"]
          /\ tokenArtifact' = TokenWritten(clients[c].writes[w].tokens)
    /\ UNCHANGED <<issued, alive>>
    /\ UNCHANGED besideRefresh

\* the mail-API request is answered and the tool call returns its result
returnResult(c) ==
    /\ alive
    /\ clients[c].pc = "request"
    /\ clients' = [clients EXCEPT ![c].pc = "done"]
    /\ UNCHANGED <<tokenArtifact, issued, alive>>
    /\ UNCHANGED besideRefresh

\* process.exit (the SIGINT handler), or the process is killed
exit ==
    /\ alive
    /\ alive' = FALSE
    /\ UNCHANGED <<tokenArtifact, clients, issued>>
    /\ UNCHANGED besideRefresh

RefreshNext ==
    \/ \E c \in ClientIds :
          \/ create(c)
          \/ onTokens(c)
          \/ openTokenPath(c)
          \/ writeTokenPath(c)
          \/ returnResult(c)
    \/ exit

RefreshInit ==
    /\ ReadIdle
    /\ OnboardIdle
    /\ UpsertIdle
    /\ ArgsIdle
    /\ tokenArtifact \in {TokenWritten(Credentials(0, 0)), TokenAbsent}
    /\ clients = [c \in ClientIds |-> IdleClient]
    /\ issued = 0
    /\ alive = TRUE

RefreshSpec == RefreshInit /\ [][RefreshNext]_refreshVars

\* a write the listener of client c started has not finished
Pending(c) ==
    \E w \in 1..Len(clients[c].writes) : clients[c].writes[w].state # "done"
Refreshed(c) == clients[c].writes # <<>>
Quiet == \A c \in ClientIds : clients[c].pc = "done" /\ ~Pending(c)

\* C21: when a tool call whose client received refreshed tokens returns, the
\* overlaid tokens have been written to the token file; and once every call
\* has returned the token file holds the most recently issued tokens.
C21_RefreshPersisted ==
    /\ \A c \in ClientIds : clients[c].pc = "done" => ~Pending(c)
    /\ (Quiet /\ issued > 0)
          => /\ tokenArtifact.state = "written"
             /\ tokenArtifact.tokens.access = issued

\* what the code does keep: the listener starts a write of the overlay at
\* once, and when the process lives until every write has finished the token
\* file holds the overlay some client wrote
C21_Kept ==
    /\ [][\A c \in ClientIds :
             clients'[c].cachedTokens # clients[c].cachedTokens /\ clients[c].pc = "request"
                => /\ Len(clients'[c].writes) = Len(clients[c].writes) + 1
                   /\ clients'[c].writes[Len(clients'[c].writes)]
                         = [state |-> "queued", tokens |-> clients'[c].cachedTokens]
                   /\ clients'[c].cachedTokens.access = issued'
                   /\ clients'[c].cachedTokens.refresh
                         \in {issued', clients[c].cachedTokens.refresh}]_refreshVars
    /\ []((Quiet /\ issued > 0)
             => /\ tokenArtifact.state = "written"
                /\ \E c \in ClientIds : \E w \in 1..Len(clients[c].writes) :
                      tokenArtifact.tokens = clients[c].writes[w].tokens)

\* the call returned with refreshed tokens, the process exited, and the token
\* file still holds the tokens from before the refresh
C21_LostOnExit ==
    /\ ~alive
    /\ clients[1].pc = "done" /\ Refreshed(1) /\ Pending(1)
    /\ issued = 1
    /\ tokenArtifact = TokenWritten(Credentials(0, 0))

\* two calls of the account overlapped, each was issued tokens, every write
\* has finished, and the token file holds the tokens issued first
C21_StaleFinal ==
    /\ alive /\ Quiet
    /\ Refreshed(1) /\ Refreshed(2)
    /\ issued = 2
    /\ tokenArtifact.state = "written"
    /\ tokenArtifact.tokens.access = 1

\* the default pointer of a registry is unset or names one of its accounts
ValidDefault(cfg) ==
    \/ cfg.defaultAccount = Null
    \/ /\ cfg.defaultAccount.t = "string"
       /\ cfg.defaultAccount.s \in IdsOf(cfg)

\* call c has just come back from loadAccountsConfig with a registry
Loads(c) ==
    /\ calls[c].pc = "load"
    /\ calls'[c].pc # "load"
    /\ calls'[c].error # "ConfigCorrupt"
    /\ calls'[c].error # "CredentialsInvalid"
    /\ disk.accounts.state = "written"

MaxEntries == 2
MaxUpserts == 2
UpsertIds == {<<"a">>, <<"b">>, <<"c">>}
Entries ==
    {Entry(id, email, enabled) :
        id \in UpsertIds, email \in {"e0", "e1"}, enabled \in BOOLEAN}
\* registries as loadAccountsConfig can return them: an edited file may hold
\* the same id twice
UpsertRegistries ==
    {[defaultAccount |-> d, accounts |-> accounts] :
        d \in {Null, Str(<<"a">>)}, accounts \in SeqsUpTo(Entries, MaxEntries)}

\* mutant: the entry is written into the array of the registry passed in
configAfterUpsert_inPlace(given, nextAccount) ==
    IF findIndex(given.accounts, nextAccount.id) = 0
    THEN given
    ELSE [given EXCEPT !.accounts[findIndex(given.accounts, nextAccount.id)]
                           = nextAccount]

\* the registry passed in, after the call: upsertAccount spreads config and
\* copies config.accounts, and assigns only to the copies
configAfterUpsert(given, nextAccount) == given

\* one call of upsertAccount on the registry the last call returned
callUpsertAccount ==
    /\ upsertCalls < MaxUpserts
    /\ \E nextAccount \in Entries :
          /\ nextEntry' = nextAccount
          /\ upsertGiven' = upsertResult
          /\ upsertConfig' = configAfterUpsert(upsertResult, nextAccount)
          /\ upsertResult' = upsertAccount(upsertResult, nextAccount)
    /\ upsertCalls' = upsertCalls + 1
    /\ UNCHANGED besideUpsert

UpsertNext == callUpsertAccount

UpsertInit ==
    /\ ReadIdle
    /\ OnboardIdle
    /\ RefreshIdle
    /\ ArgsIdle
    /\ upsertResult \in UpsertRegistries
    /\ upsertGiven = upsertResult
    /\ upsertConfig = upsertResult
    /\ nextEntry = Entry(<<>>, "", FALSE)
    /\ upsertCalls = 0

UpsertSpec == UpsertInit /\ [][UpsertNext]_upsertVars

\* the positions of registry R that hold an entry with this id
PositionsOf(R, id) == {i \in 1..Len(R.accounts) : R.accounts[i].id = id}

\* C23: upsertAccount(R, a) leaves R as it was, keeps defaultAccount,
\* replaces the first entry with a's id at its position and leaves every
\* other entry where it was, appends a when no entry has its id; and a second
\* call with the same a returns the same registry.
C23_UpsertIdempotentPure ==
    /\ [](upsertCalls > 0 =>
            LET R == upsertGiven
                a == nextEntry
                out == upsertResult
                at == PositionsOf(R, a.id)
            IN  /\ upsertConfig = R
                /\ out.defaultAccount = R.defaultAccount
                /\ at = {} => out.accounts = R.accounts \o <<a>>
                /\ at # {} =>
                      /\ Len(out.accounts) = Len(R.accounts)
                      /\ \A i \in 1..Len(R.accounts) :
                            out.accounts[i] =
                               IF i \in at /\ \A j \in at : i <= j
                               THEN a ELSE R.accounts[i]
                /\ upsertAccount(out, a) = out)
    /\ [][(upsertCalls > 0 /\ nextEntry' = nextEntry) =>
             upsertResult' = upsertResult]_upsertVars

\* on a registry <<a, b>> with default a, the entry of b was replaced at
\* position 2, and a second call with the same entry changed nothing
C23_Witness ==
    /\ upsertCalls = 2
    /\ upsertGiven = upsertResult
    /\ upsertConfig = upsertGiven
    /\ nextEntry = Entry(<<"b">>, "e1", TRUE)
    /\ upsertResult = [defaultAccount |-> Str(<<"a">>),
                       accounts |-> <<Entry(<<"a">>, "e0", TRUE),
                                      Entry(<<"b">>, "e1", TRUE)>>]

\* ======================================================= tool call arguments
MaxIds == 2

\* items.map((item) => item.trim())
mapTrim(items) == [i \in 1..Len(items) |-> trim(items[i])]
\* items.filter(Boolean)
filterBoolean(items) == SelectSeq(items, LAMBDA item : item # <<>>)

\* valueToStringArray: not an array gives []
valueToStringArray(value) ==
    IF value.t # "array" THEN <<>> ELSE filterBoolean(mapTrim(value.items))

\* Array.from(new Set(items)): first occurrences, in order
RECURSIVE arrayFromSet(_)
arrayFromSet(items) ==
    IF items = <<>> THEN <<>>
    ELSE LET rest == arrayFromSet(SubSeq(items, 1, Len(items) - 1))
             last == items[Len(items)]
         IN  IF \E i \in 1..Len(rest) : rest[i] = last THEN rest
             ELSE Append(rest, last)

sanitizeMessageIds(messageIds) == arrayFromSet(filterBoolean(mapTrim(messageIds)))

\* normalizeOutgoingAddressList returns null or '': no part between the
\* commas has anything but whitespace in it
recipientMissing(to) ==
    \A i \in 1..Len(to) : to[i] \in WhitespaceChars \cup {","}

\* one request to the mail API
ApiRequest(method, ids, labels, text) ==
    [method |-> method, ids |-> ids, labels |-> labels, text |-> text]
Invalid == [error |-> "ValidationError", requests |-> <<>>]
Send(requests) == [error |-> "none", requests |-> requests]

\* mutant: the request goes out before the arguments are looked at
clientMethod_sendFirst(tool, messageIds, labelIds, text) ==
    [error |-> IF sanitizeMessageIds(messageIds) = <<>> /\ trim(text) = <<>>
               THEN "ValidationError" ELSE "none",
     requests |-> <<ApiRequest(tool, sanitizeMessageIds(messageIds),
                               filterBoolean(mapTrim(labelIds)), text)>>]

\* the method of GmailAccountClient a handler calls, up to its requests
clientMethod(tool, messageIds, labelIds, text) ==
    LET ids == sanitizeMessageIds(messageIds)
        labels == filterBoolean(mapTrim(labelIds))
        blank == text = <<>> \/ trim(text) = <<>>
    IN  CASE tool = "search_emails" ->
               IF blank THEN Invalid
               ELSE Send(<<ApiRequest("messages.list", <<>>, <<>>, text)>>)
          [] tool = "get_email_thread" ->
               IF blank THEN Invalid
               ELSE Send(<<ApiRequest("threads.get", <<>>, <<>>, text)>>)
          [] tool = "get_labels" ->
               Send(<<ApiRequest("labels.list", <<>>, <<>>, <<>>)>>)
          [] tool \in {"mark_as_read", "archive_emails"} ->
               IF ids = <<>> THEN Invalid
               ELSE Send(<<ApiRequest("messages.batchModify", ids, <<>>, <<>>)>>)
          [] tool \in {"add_labels", "remove_labels"} ->
               IF ids = <<>> \/ labels = <<>> THEN Invalid
               ELSE Send(<<ApiRequest("messages.batchModify", ids, labels, <<>>)>>)
          [] tool = "trash_emails" ->
               IF ids = <<>> THEN Invalid
               ELSE Send([i \in 1..Len(ids) |->
                            ApiRequest("messages.trash", <<ids[i]>>, <<>>, <<>>)])
          [] tool = "create_label" ->
               IF blank THEN Invalid
               ELSE Send(<<ApiRequest("labels.create", <<>>, <<>>, trim(text))>>)
          [] tool = "delete_label" ->
               IF blank THEN Invalid
               ELSE Send(<<ApiRequest("labels.delete", <<>>, <<>>, text)>>)
          [] tool = "create_draft" ->
               IF recipientMissing(text) THEN Invalid
               ELSE Send(<<ApiRequest("drafts.create", <<>>, <<>>, text)>>)
          [] tool = "send_email" ->
               IF recipientMissing(text) THEN Invalid
               ELSE Send(<<ApiRequest("messages.send", <<>>, <<>>, text)>>)

ToolThrows(error) ==
    /\ toolPc' = "done"
    /\ toolError' = error

\* the handler up to the resolver: handleSearchEmails checks the query first
handleTool ==
    /\ toolPc = "ready"
    /\ LET text == valueToString(toolArgs.text, <<>>)
           loaded == loadAccountsConfig(toolFiles.registry)
           resolved ==
              IF toolArgs.tool = "search_emails"
              THEN resolveReadAccounts(loaded,
                      orUndefined(trim(valueToString(toolArgs.account, <<>>))))
              ELSE resolveWriteAccount(loaded,
                      Str(valueToString(toolArgs.account, <<>>)))
       IN  IF toolArgs.tool = "search_emails" /\ (text = <<>> \/ trim(text) = <<>>)
           THEN ToolThrows("ValidationError") /\ UNCHANGED toolAccounts
           ELSE IF ~resolved.ok
           THEN ToolThrows(resolved.error) /\ UNCHANGED toolAccounts
           ELSE /\ toolAccounts' = resolved.accounts
                /\ toolPc' = "create"
                /\ UNCHANGED toolError
    /\ UNCHANGED <<toolArgs, toolFiles, outbound>>
    /\ UNCHANGED besideArgs

\* GmailAccountClient.create: reads the credentials and token files
getClientForAccount ==
    /\ toolPc = "create"
    /\ IF toolFiles.token
       THEN toolPc' = "method" /\ UNCHANGED toolError
       ELSE ToolThrows("TokenMissing")
    /\ UNCHANGED <<toolArgs, toolFiles, toolAccounts, outbound>>
    /\ UNCHANGED besideArgs

\* the client method checks its arguments and sends its requests
callClientMethod ==
    /\ toolPc = "method"
    /\ LET called == clientMethod(toolArgs.tool,
                        valueToStringArray(toolArgs.message_ids),
                        valueToStringArray(toolArgs.label_ids),
                        valueToString(toolArgs.text, <<>>))
       IN  /\ outbound' = outbound \o called.requests
           /\ IF called.error = "none"
              THEN toolPc' = "sent" /\ UNCHANGED toolError
              ELSE ToolThrows(called.error)
    /\ UNCHANGED <<toolArgs, toolFiles, toolAccounts>>
    /\ UNCHANGED besideArgs

\* the mail API answers
apiAnswers ==
    /\ toolPc = "sent"
    /\ toolPc' = "done"
    /\ toolError' = IF toolFiles.api = "fail" THEN "ExternalCollaboratorError"
                    ELSE "none"
    /\ UNCHANGED <<toolArgs, toolFiles, toolAccounts, outbound>>
    /\ UNCHANGED besideArgs

ArgsNext ==
    \/ handleTool
    \/ getClientForAccount
    \/ callClientMethod
    \/ apiAnswers

ArgItems == {<<>>, <<" ">>, <<"x">>, <<"x", " ">>, <<"y">>}
ArgArrays == {NotArray} \cup {Arr(items) : items \in SeqsUpTo(ArgItems, MaxIds)}
ArgTexts == {Undefined, Str(<<>>), Str(<<" ">>), Str(<<",">>), Str(<<"x">>)}
ArgAccounts ==
    {Undefined, Str(<<"a">>), Str(<<"b">>), Str(<<"c">>), Str(<<" ">>)}
TextTools ==
    {"search_emails", "get_email_thread", "create_label", "delete_label",
     "create_draft", "send_email"}
IdTools == {"mark_as_read", "archive_emails", "trash_emails"}
LabelTools == {"add_labels", "remove_labels"}
ArgRequests ==
    {ToolArgs(tool, account, NotArray, NotArray, text) :
        tool \in TextTools, account \in ArgAccounts, text \in ArgTexts}
    \cup {ToolArgs("get_labels", account, NotArray, NotArray, Undefined) :
            account \in ArgAccounts}
    \cup {ToolArgs(tool, account, ids, NotArray, Undefined) :
            tool \in IdTools, account \in ArgAccounts, ids \in ArgArrays}
    \cup {ToolArgs(tool, account, ids, labels, Undefined) :
            tool \in LabelTools, account \in {Str(<<"a">>), Str(<<"c">>)},
            ids \in ArgArrays, labels \in ArgArrays}
ArgRegistries ==
    {Registry(<<MkAccount(<<"a">>, TRUE), MkAccount(<<"b">>, enabled)>>) :
        enabled \in BOOLEAN}

ArgsInit ==
    /\ ReadIdle
    /\ OnboardIdle
    /\ RefreshIdle
    /\ UpsertIdle
    /\ toolArgs \in ArgRequests
    /\ toolFiles \in [registry : ArgRegistries, token : BOOLEAN, api : {"ok", "fail"}]
    /\ toolPc = "ready"
    /\ toolAccounts = <<>>
    /\ outbound = <<>>
    /\ toolError = "none"

ArgsSpec == ArgsInit /\ [][ArgsNext]_argsVars

\* what the claims call malformed, stated apart from the code's operators
BlankText(value) ==
    value.t # "string" \/ \A i \in 1..Len(value.s) : value.s[i] = " "
NoUsableItem(value) ==
    value.t # "array"
    \/ \A i \in 1..Len(value.items) :
          \A j \in 1..Len(value.items[i]) : value.items[i][j] = " "
NoRecipient(value) ==
    value.t # "string" \/ \A i \in 1..Len(value.s) : value.s[i] \in {" ", ","}
Malformed ==
    \/ toolArgs.tool \in {"search_emails", "get_email_thread", "create_label",
                          "delete_label"} /\ BlankText(toolArgs.text)
    \/ toolArgs.tool \in {"create_draft", "send_email"} /\ NoRecipient(toolArgs.text)
    \/ toolArgs.tool \in IdTools \cup LabelTools /\ NoUsableItem(toolArgs.message_ids)
    \/ toolArgs.tool \in LabelTools /\ NoUsableItem(toolArgs.label_ids)

\* C24: a tool call that fails account resolution, or whose required
\* arguments are missing or blank, sends no request to the mail API at any
\* point, and ends with an error; a call ends with ValidationError only when
\* its arguments are malformed.
C24_NoRequestBeforeValidation ==
    /\ (Malformed \/ toolError \in ResolutionErrors \cup {"AccountRequired"})
          => outbound = <<>>
    /\ (Malformed /\ toolPc = "done") => toolError # "none"
    /\ toolError = "ValidationError" => Malformed

\* add_labels on the enabled account a, whose client was built, with only a
\* blank message id: ValidationError and nothing sent
C24_Witness ==
    /\ toolArgs.tool = "add_labels"
    /\ toolArgs.message_ids = Arr(<<<<" ">>>>)
    /\ toolArgs.label_ids = Arr(<<<<"x">>>>)
    /\ toolFiles.token
    /\ toolAccounts # <<>>
    /\ toolPc = "done"
    /\ toolError = "ValidationError"
    /\ outbound = <<>>

\* an id list as the claim wants it: every element trimmed, none blank, none
\* repeated
Trimmed(item) == item # <<>> /\ item[1] # " " /\ item[Len(item)] # " "
Sanitized(items) ==
    /\ \A i \in 1..Len(items) : Trimmed(items[i])
    /\ \A i, j \in 1..Len(items) : i # j => items[i] # items[j]

\* C25: the message id list and the label id list of every request sent to
\* the mail API hold only trimmed, non-blank values, each once.
C25_ArraysSanitized ==
    \A r \in 1..Len(outbound) :
       Sanitized(outbound[r].ids) /\ Sanitized(outbound[r].labels)

\* the usable values of an array argument, trimmed, in order of appearance
Usable(value) ==
    IF value.t # "array" THEN <<>>
    ELSE SelectSeq([i \in 1..Len(value.items) |-> trim(value.items[i])],
                   LAMBDA item : item # <<>>)

\* what the code does keep: message ids go out trimmed, without blanks and
\* without repeats, covering every usable message id given; label ids go out
\* trimmed and without blanks, repeats included, exactly as given
C25_Kept ==
    \A r \in 1..Len(outbound) :
       /\ Sanitized(outbound[r].ids)
       /\ \A i \in 1..Len(outbound[r].ids) :
             \E k \in 1..Len(Usable(toolArgs.message_ids)) :
                outbound[r].ids[i] = Usable(toolArgs.message_ids)[k]
       /\ \A k \in 1..Len(Usable(toolArgs.message_ids)) :
             \E q \in 1..Len(outbound) : \E i \in 1..Len(outbound[q].ids) :
                outbound[q].ids[i] = Usable(toolArgs.message_ids)[k]
       /\ \A i \in 1..Len(outbound[r].labels) : Trimmed(outbound[r].labels[i])
       /\ toolArgs.tool \in LabelTools
             => outbound[r].labels = Usable(toolArgs.label_ids)

\* add_labels with label_ids ["x", "x "] has sent addLabelIds ["x", "x"]
C25_DuplicateLabels ==
    /\ toolArgs.tool = "add_labels"
    /\ toolArgs.message_ids = Arr(<<<<"x">>, <<"x", " ">>>>)
    /\ toolArgs.label_ids = Arr(<<<<"x">>, <<"x", " ">>>>)
    /\ Len(outbound) = 1
    /\ outbound[1].ids = <<<<"x">>>>
    /\ outbound[1].labels = <<<<"x">>, <<"x">>>>

\* the account is enabled and both its files exist
Ready(account) ==
    account.enabled /\ world[account.id].creds /\ world[account.id].token
EnabledInRegistry == SelectSeq(registry.accounts, LAMBDA a : a.enabled)

\* C26: resolution looks at the id and the enabled flag only: a read without
\* an account targets every enabled account, and a read or write naming an
\* enabled account targets it, whether or not its credentials and token
\* files exist; in the aggregate an account that is not ready gives one
\* diagnostic and the items of the accounts that answer are returned; and
\* list_accounts reports the health of every account and leaves the registry
\* and the files as they were.
C26_HealthNeverGates ==
    /\ []((ReadCall /\ IsBlank(request.account) /\ response.kind # "error")
             => targetAccounts = EnabledInRegistry)
    /\ [](\A i \in 1..Len(registry.accounts) :
             (/\ registry.accounts[i].enabled
              /\ request.account = Str(registry.accounts[i].id)
              /\ ReadCall \/ WriteCall)
                => targetAccounts = <<registry.accounts[i]>>)
    /\ [](ListDone =>
             \A k \in Targets :
                IF ~Ready(targetAccounts[k])
                THEN Cardinality(DiagnosticsOf(targetAccounts[k])) = 1
                ELSE WorldOfTarget(k).api = "ok" =>
                        \A j \in 1..Min2(maxResults, Len(WorldOfTarget(k).msgs)) :
                           \E m \in 1..Len(merged) :
                               /\ merged[m].accountId = targetAccounts[k].id
                               /\ merged[m].id = WorldOfTarget(k).msgs[j].id)
    /\ []((request.tool = "list_accounts" /\ pc = "done") =>
             /\ Len(response.returned) = Len(registry.accounts)
             /\ \A i \in 1..Len(registry.accounts) :
                   /\ response.returned[i].account = registry.accounts[i]
                   /\ response.returned[i].hasCredentialsFile
                         = world[registry.accounts[i].id].creds
                   /\ response.returned[i].hasTokenFile
                         = world[registry.accounts[i].id].token
                   /\ response.returned[i].ready = Ready(registry.accounts[i]))
    /\ [][registry' = registry /\ world' = world]_vars

\* a read over a and b, both enabled, b without its credentials file: both
\* were targeted, b gave one diagnostic and a's item was returned
C26_Witness ==
    /\ ListDone
    /\ Len(targetAccounts) = 2
    /\ Ready(targetAccounts[1])
    /\ ~world[targetAccounts[2].id].creds
    /\ Len(response.errors) = 1
    /\ response.totalFound >= 1
    /\ Len(response.returned) >= 1

\* where an item of the merged list came from
TargetOf(email) == CHOOSE k \in Targets : targetAccounts[k].id = email.accountId
PlaceOf(email) ==
    CHOOSE p \in 1..Len(accountResults[TargetOf(email)].emails) :
        accountResults[TargetOf(email)].emails[p] = email
FailingTargets == {k \in Targets : accountResults[k].error # <<>>}
ItemCount(k) == Len(accountResults[k].emails)
RECURSIVE SumItems(_)
SumItems(k) == IF k = 0 THEN 0 ELSE ItemCount(k) + SumItems(k - 1)

\* C27: in whatever order the per-account operations return, each one's
\* outcome is what the world fixes for its account, the merged list holds
\* every item once, newest first, items of equal date in the order of the
\* resolved accounts and then in the order of their account's result,
\* totalFound is the length of that list, and the diagnostics are in the
\* order of the resolved accounts.
C27_OrderIndependent ==
    ListDone =>
       /\ \A k \in Targets :
             [accountResults[k] EXCEPT !.order = 0]
                = accountResult(targetAccounts[k], WorldOfTarget(k), maxResults)
       /\ {accountResults[k].order : k \in Targets} = Targets
       /\ Len(merged) = SumItems(Len(targetAccounts))
       /\ response.totalFound = Len(merged)
       /\ \A k \in Targets : \A p \in 1..ItemCount(k) :
             \E m \in 1..Len(merged) : merged[m] = accountResults[k].emails[p]
       /\ \A m \in 1..Len(merged) : \A n \in (m + 1)..Len(merged) :
             \/ RawKey(merged[m]) > RawKey(merged[n])
             \/ /\ RawKey(merged[m]) = RawKey(merged[n])
                /\ \/ TargetOf(merged[m]) < TargetOf(merged[n])
                   \/ /\ TargetOf(merged[m]) = TargetOf(merged[n])
                      /\ PlaceOf(merged[m]) < PlaceOf(merged[n])
       /\ Len(response.errors) = Cardinality(FailingTargets)
       /\ \A j \in 1..Len(response.errors) :
             \E k \in FailingTargets :
                /\ response.errors[j] = accountResults[k].error
                /\ Cardinality({f \in FailingTargets : f < k}) = j - 1

\* account b returned before account a; each holds one item of date 1, and
\* a's item is first in the merged list
C27_Witness ==
    /\ ListDone
    /\ Len(targetAccounts) = 2
    /\ accountResults[1].order = 2
    /\ accountResults[2].order = 1
    /\ Len(merged) = 2
    /\ RawKey(merged[1]) = RawKey(merged[2])
    /\ merged[1].accountId = targetAccounts[1].id
    /\ merged[2].accountId = targetAccounts[2].id

\* both accounts failed, b before a, and a's diagnostic is first
C27_ErrorsInAccountOrder ==
    /\ ListDone
    /\ Len(targetAccounts) = 2
    /\ accountResults[1].order = 2
    /\ accountResults[2].order = 1
    /\ response.errors = <<accountResults[1].error, accountResults[2].error>>
    /\ accountResults[1].error # <<>> /\ accountResults[2].error # <<>>

\* the registry a tool call would load from the config root right now
PersistedRegistry == loadAccountsConfig(disk.accounts.config)
PersistedEntries ==
    IF disk.accounts.state = "written" /\ ~loadThrows(disk.accounts.config)
    THEN {PersistedRegistry.accounts[i] : i \in 1..Len(PersistedRegistry.accounts)}
    ELSE {}
CredentialsOnDisk(id) == disk.credentials[id] # NoFile
TokenOnDisk(id) == disk.tokens[id] # NoTokenFile

\* C28: in every state, the states between two steps of a handler included,
\* an account of the persisted registry has its credentials file on disk, and
\* an account persisted with enabled = true has its token file on disk.
C28_ArtifactBeforeRegistry ==
    \A entry \in PersistedEntries :
        /\ CredentialsOnDisk(entry.id)
        /\ entry.enabled => TokenOnDisk(entry.id)

\* finish_account_auth has saved enabled = true for an account that had no
\* token file when the calls began
C28_Witness ==
    \E entry \in PersistedEntries :
        /\ entry.enabled
        /\ TokenOnDisk(entry.id)
        /\ history.initial.tokens[entry.id] = NoTokenFile
        /\ \E c \in 1..MaxCalls :
              calls[c].kind = "finish" /\ calls[c].account_id = entry.id

\* the states a crash between two steps leaves: credentials on disk for an
\* account that has no entry yet, and a token on disk for an entry that is
\* still disabled
C28_CredentialsBeforeEntry ==
    \E c \in 1..MaxCalls :
        /\ calls[c].kind = "begin" /\ calls[c].pc = "load"
        /\ CredentialsOnDisk(calls[c].account_id)
        /\ \A entry \in PersistedEntries : entry.id # calls[c].account_id
C28_TokenBeforeEnabled ==
    \E c \in 1..MaxCalls :
        /\ calls[c].kind = "finish" /\ calls[c].pc = "open"
        /\ calls[c].resume = "profile"
        /\ TokenOnDisk(calls[c].account_id)
        /\ \E entry \in PersistedEntries :
              entry.id = calls[c].account_id /\ ~entry.enabled

\* no two entries of a registry have the same id, and every id passes
\* validateAccountId
UniqueIds(cfg) ==
    \A i \in 1..Len(cfg.accounts) : \A j \in 1..Len(cfg.accounts) :
        cfg.accounts[i].id = cfg.accounts[j].id => i = j
WellFormedIds(cfg) ==
    \A i \in 1..Len(cfg.accounts) : validateAccountId(cfg.accounts[i].id)
CleanRegistry(file) ==
    file.state = "written" => UniqueIds(file.config) /\ WellFormedIds(file.config)

\* C29: when the calls begin on a registry without duplicate or malformed
\* ids, then in every state, whatever begin_account_auth and
\* finish_account_auth calls have run or failed, accounts.json as written
\* holds no two entries with the same id and only ids of the pattern.
C29_IdsUnique ==
    CleanRegistry(history.initial.accounts) => CleanRegistry(disk.accounts)

\* begin_account_auth has succeeded for an id the registry already held, and
\* the registry still holds two entries
C29_Witness ==
    /\ CleanRegistry(history.initial.accounts)
    /\ disk.accounts.state = "written"
    /\ Len(disk.accounts.config.accounts) = 2
    /\ \E c \in 1..MaxCalls :
          /\ calls[c].kind = "begin" /\ calls[c].pc = "done"
          /\ calls[c].error = "none"
          /\ calls[c].account_id \in IdsOf(calls[c].before.accounts.config)
    /\ \E c \in 1..MaxCalls :
          calls[c].pc = "done" /\ calls[c].error = "InvalidAccountId"

\* call c is a begin_account_auth that returned without error for an account
\* that was enabled in the registry when the call arrived
Demoting(c) ==
    /\ calls[c].kind = "begin"
    /\ calls[c].pc = "done" /\ calls[c].error = "none"
    /\ PersistedAs(calls[c].before, calls[c].account_id, TRUE)

\* call d is a finish_account_auth for the id that has written something
Reenabling(d, id) ==
    /\ calls[d].kind = "finish"
    /\ calls[d].account_id = id
    /\ calls[d].mutations > 0

\* call d does not overlap call c: it has not arrived, it was over when c
\* arrived, or it arrived when c had returned
Sequential(c, d) ==
    \/ calls[d].pc = "ready"
    \/ /\ calls[d].pc = "done"
       /\ calls[d].startedAt + calls[d].mutations <= calls[c].startedAt
    \/ /\ calls[c].pc = "done"
       /\ calls[d].startedAt >= calls[c].startedAt + calls[c].mutations

\* what a tool call that loads the registry now resolves for the id: a write
\* tool naming it fails with AccountDisabled, an aggregate read leaves it out
WriteToolFails(id) ==
    resolveWriteAccount(PersistedRegistry, Str(id)) = Err("AccountDisabled")
ReadsExclude(id) ==
    LET resolved == resolveReadAccounts(PersistedRegistry, Undefined)
    IN  \A i \in 1..Len(resolved.accounts) : resolved.accounts[i].id # id
Loadable == disk.accounts.state = "written" /\ ~loadThrows(disk.accounts.config)

\* C30, as claimed: once a begin_account_auth has returned for an account
\* that was enabled, and as long as no finish_account_auth for the account
\* has written anything, the registry holds the account disabled: a write
\* tool naming it fails with AccountDisabled and an aggregate read leaves it
\* out.
C30_BeginDemotes ==
    \A c \in CallIds :
        (/\ Demoting(c)
         /\ \A d \in CallIds \ {c} : ~Reenabling(d, calls[c].account_id)
         /\ Loadable)
           => /\ PersistedAs(disk, calls[c].account_id, FALSE)
              /\ WriteToolFails(calls[c].account_id)
              /\ ReadsExclude(calls[c].account_id)

\* what the code does keep: the same, when no other call overlaps the
\* begin_account_auth
C30_Kept ==
    \A c \in CallIds :
        (/\ Demoting(c)
         /\ \A d \in CallIds \ {c} :
               Sequential(c, d) /\ ~Reenabling(d, calls[c].account_id)
         /\ Loadable)
           => /\ PersistedAs(disk, calls[c].account_id, FALSE)
              /\ WriteToolFails(calls[c].account_id)
              /\ ReadsExclude(calls[c].account_id)

\* begin for the active account a has returned, then a finish for a was
\* rejected by the OAuth endpoint: a is disabled and a write tool naming it
\* fails
C30_Demoted ==
    /\ Demoting(1)
    /\ calls[1].account_id = <<"a">>
    /\ Sequential(1, 2)
    /\ calls[2].kind = "finish" /\ calls[2].account_id = <<"a">>
    /\ calls[2].pc = "done" /\ calls[2].error = "ExternalCollaboratorError"
    /\ Loadable
    /\ PersistedAs(disk, <<"a">>, FALSE)
    /\ WriteToolFails(<<"a">>)
    /\ ReadsExclude(<<"a">>)

\* begin for the active account a overlapped a begin for b that had loaded
\* the registry before; both returned without error, no finish ran, and the
\* registry holds a enabled
C30_Reenabled ==
    /\ Demoting(1)
    /\ calls[1].account_id = <<"a">>
    /\ calls[2].kind = "begin" /\ calls[2].account_id = <<"b">>
    /\ calls[2].pc = "done" /\ calls[2].error = "none"
    /\ Loadable
    /\ PersistedAs(disk, <<"a">>, TRUE)
    /\ resolveWriteAccount(PersistedRegistry, Str(<<"a">>)).ok

====
